---- MODULE Spec2Model ----
(***************************************************************************)
(* Model of the Excel file splitter: the partition planner                 *)
(* (excel_splitter_rewrite.calculate_output_distribution), the segment     *)
(* mode consolidator (process_data_segment under a thread pool), the       *)
(* streaming splitter (excel_splitter) and the whole-group mode            *)
(* (excel_splitter_parallel.process_sheet under a process pool).           *)
(*                                                                         *)
(* A record of input sheet i (rank, 1-based) at data row r (0-based) is    *)
(* the pair <<i, r>>.  An output target is the pair <<file, sheet>>.       *)
(***************************************************************************)
EXTENDS Integers, Sequences, FiniteSets, TLC

VARIABLES
    sheet_rows,          \* the data rows of each input sheet, by rank of the sheet
    input_analysis,      \* what analyze_input_file returned: sheets_info[..]["data_rows"]
    sheets_per_file,     \* G
    data_rows_per_sheet, \* R
    plan,                \* the locals of calculate_output_distribution
    stream,              \* the locals of split_excel_file_with_optimized_memory
    output,              \* the output directory: <<file, sheet>> -> stored records
    corrupt,             \* the output files that exist but cannot be read
    mode,                \* "none", "segment", "parallel" (process pool) or "db" (two-phase)
    data_segments,       \* the work queue of the executor, in submission order
    next_unit,           \* the first unit no worker has taken yet
    worker,              \* the locals of each worker's current unit
    file_locks,          \* per process: the module's file_locks dict, path -> lock
    file_locks_lock,     \* per process: the holder of file_locks_lock (0: free)
    lock_owner,          \* per created RLock: its holder (0: free)
    finished,            \* the units whose future has completed
    chunk_size,          \* the chunk_size handed to every process_sheet call
    faults,              \* the I/O errors raised so far
    results,             \* per finished unit: what future.result() gives the coordinator
    failed_units,        \* the units an error kept from storing their records
    run_result,          \* what the run returned to its caller
    num_columns,         \* the number of columns of the input sheets
    store,               \* the staging database of excel_splitter_db
    db                   \* the locals of split_excel_with_db and create_output_files

\* the input, its analysis and the parameters shared by every mode
params == <<sheet_rows, input_analysis, sheets_per_file, data_rows_per_sheet>>

\* the output directory
disk == <<output, corrupt>>

\* the state of the worker pool
pool == <<mode, data_segments, next_unit, worker, file_locks, file_locks_lock,
          lock_owner, finished, chunk_size, faults, results, failed_units>>

\* the state of the two-phase mode
staging == <<num_columns, store, db>>

\* what no step of a worker changes
fixed == <<params, plan, stream, mode, data_segments, chunk_size, run_result, staging>>

vars == <<params, plan, stream, disk, pool, run_result, staging>>

----------------------------------------------------------------------------
(* Bounds of the planner specification *)
PlanMaxGroups == 2
PlanMaxRows == 7
PlanMaxR == 4
PlanMaxG == 2

(* Bounds of the streaming specification *)
StreamMaxGroups == 2
StreamMaxRows == 4
StreamMaxR == 2
StreamMaxG == 2
StreamMaxChunk == 2

(* Bounds of the segment mode specification *)
SegMaxGroups == 2
SegMaxTotal == 2
SegMaxG == 2
SegMaxWorkers == 2

(* Bounds of the whole-group mode specification *)
ParMaxGroups == 2
ParMaxTotal == 3
ParMaxG == 2
ParMaxWorkers == 2
ParMaxChunk == 2

(* Bounds of the specification of both pools under fair scheduling *)
LockMaxGroups == 2
LockMaxTotal == 2
LockMaxG == 1
LockMaxWorkers == 2
LockMaxChunk == 1

(* Bounds of the two-phase mode specification *)
DbMaxGroups == 2
DbMaxTotal == 2
DbMaxG == 2
DbMaxWorkers == 2
DbMaxColumns == 3

(* Bounds of the two-phase mode specification with every choice of the
   database path *)
LifeMaxGroups == 1
LifeMaxTotal == 2
LifeMaxG == 2
LifeMaxWorkers == 1
LifeMaxColumns == 2

(* Bound of the I/O errors raised in one run *)
MaxFaults == 1

----------------------------------------------------------------------------
(* Helpers *)
Min(a, b) == IF a <= b THEN a ELSE b

RECURSIVE SumSeq(_)
SumSeq(s) == IF s = <<>> THEN 0 ELSE Head(s) + SumSeq(Tail(s))

\* math.ceil(a / b) for a >= 0, b >= 1
Ceil_Floor(a, b) == a \div b

Ceil(a, b) == IF a % b = 0 THEN a \div b ELSE (a \div b) + 1

\* the ordered lists of input sheets with at most n sheets of at most m rows
SizeSeqs(n, m) == UNION {[1..k -> 0..m] : k \in 1..n}

\* the same, with at most m rows in all
SizeSeqsTotal(n, m) == {rows \in SizeSeqs(n, m) : SumSeq(rows) <= m}

\* rows [from, from + n) of input sheet i, as pandas reads them with
\* skiprows = range(1, from + 1) and nrows = n: short when the sheet ends
ReadRows(rows, i, from, n) ==
    [k \in 1..Min(n, IF rows[i] > from THEN rows[i] - from ELSE 0) |-> <<i, from + k - 1>>]

\* an output directory without files
NoOutput == <<>>

\* the sheets stored in output file f
SheetsOf(out, f) == {t \in DOMAIN out : t[1] = f}

\* the output files that exist
FilesOf(out) == {t[1] : t \in DOMAIN out}

\* the streaming splitter is not running
StreamIdle == [pc |-> "idle"]

\* no run has been started
NotRun == [pc |-> "none"]

\* the run has not returned yet
Running == [pc |-> "running"]

\* the run returned value v to its caller
Returned(v) == [pc |-> "returned", value |-> v]

\* the run ended with an exception
Raised(e) == [pc |-> "raised", error |-> e]

\* analyze_input_file has not been called
NoAnalysis == [pc |-> "none"]

\* analyze_input_file returned data_rows per sheet; uncounted are the sheets
\* for which count_rows_in_sheet could not count (history)
Analysed(data_rows, uncounted) ==
    [pc |-> "done", data_rows |-> data_rows, uncounted |-> uncounted]

\* no staging database exists
NoStore == [exists |-> FALSE, rows |-> <<>>, at |-> "none"]

\* the two-phase mode is not running
DbIdle == [pc |-> "idle"]

StagingIdle ==
    /\ num_columns = 2
    /\ store = NoStore
    /\ db = DbIdle

\* no worker pool exists
PoolIdle ==
    /\ mode = "none"
    /\ data_segments = <<>>
    /\ next_unit = 1
    /\ worker = <<>>
    /\ file_locks = <<>>
    /\ file_locks_lock = <<>>
    /\ lock_owner = <<>>
    /\ finished = {}
    /\ chunk_size = 0
    /\ faults = 0
    /\ results = <<>>
    /\ failed_units = {}
    /\ run_result = NotRun
    /\ input_analysis = NoAnalysis
    /\ StagingIdle

----------------------------------------------------------------------------
(* calculate_output_distribution, one loop iteration at a time *)

\* the planner is not running
PlanIdle == [pc |-> "idle"]

\* lines 162-188: the state before the walk
PlanStart(rows, G, R) ==
    [pc |-> "walk",
     sheet |-> 1,
     rows_processed |-> 0,
     current_file |-> 1,
     current_sheet |-> 1,
     files |-> <<>>,
     data_segments |-> <<>>,
     current_positions |-> [i \in 1..Len(rows) |-> 0],
     remaining_data_rows |-> SumSeq(rows),
     total_output_sheets |-> Ceil(SumSeq(rows), R),
     total_output_files |-> Ceil(Ceil(SumSeq(rows), R), G)]

\* line 210
RowsToCopy_NoCap(rows_left_in_sheet, rows_available_in_output) ==
    rows_left_in_sheet

RowsToCopy(rows_left_in_sheet, rows_available_in_output) ==
    Min(rows_left_in_sheet, rows_available_in_output)

\* lines 238, 244: the artifact is full
FileFull_OffByOne(current_sheet, G) == current_sheet > G + 1

FileFull(current_sheet, G) == current_sheet > G

\* lines 235-240 and 243-246: advance to the next group slot
AdvanceTarget_Wraps(p, G) ==
    IF FileFull(p.current_sheet + 1, G)
    THEN [p EXCEPT !.current_sheet = 1]
    ELSE [p EXCEPT !.current_sheet = @ + 1]

AdvanceTarget(p, G) ==
    IF FileFull(p.current_sheet + 1, G)
    THEN [p EXCEPT !.current_file = @ + 1, !.current_sheet = 1]
    ELSE [p EXCEPT !.current_sheet = @ + 1]

\* lines 200-204: register the current file and sheet in the files map
Registered(p) ==
    LET t == <<p.current_file, p.current_sheet>>
    IN  IF t \in DOMAIN p.files THEN p.files ELSE p.files @@ (t :> 0)

\* line 207: the room left in the current output sheet
RowsAvailable_Fresh(R, current_output_rows) == R

RowsAvailable(R, current_output_rows) == R - current_output_rows

\* line 214: where the next segment starts in its input sheet
StartRow_Zero(p) == 0

StartRow(p) == p.current_positions[p.sheet]

\* lines 191-193: the for loop takes the next input sheet
PlanForBody_EmptyTakesSlot(p) ==
    [p EXCEPT !.sheet = @ + 1, !.rows_processed = 0,
              !.current_sheet = IF p.rows_processed = 0 THEN @ + 1 ELSE @]

PlanForBody(p) == [p EXCEPT !.sheet = @ + 1, !.rows_processed = 0]

\* lines 196-246: one iteration of the while loop
PlanWhileBody(p, rows, G, R) ==
    LET t == <<p.current_file, p.current_sheet>>
        rows_left_in_sheet == rows[p.sheet] - p.rows_processed
        files0 == Registered(p)
        rows_available_in_output == RowsAvailable(R, files0[t])
        rows_to_copy == RowsToCopy(rows_left_in_sheet, rows_available_in_output)
    IN  IF rows_to_copy > 0
        THEN LET q == [p EXCEPT
                        !.files = [files0 EXCEPT ![t] = @ + rows_to_copy],
                        !.data_segments = Append(@,
                            [input_sheet |-> p.sheet,
                             start_row |-> StartRow(p),
                             num_rows |-> rows_to_copy,
                             output_file |-> p.current_file,
                             output_sheet |-> p.current_sheet]),
                        !.current_positions[p.sheet] = @ + rows_to_copy,
                        !.rows_processed = @ + rows_to_copy,
                        !.remaining_data_rows = @ - rows_to_copy]
             IN  IF q.files[t] >= R THEN AdvanceTarget(q, G) ELSE q
        ELSE AdvanceTarget([p EXCEPT !.files = files0], G)

\* lines 191-249: one step of the walk
PlanStep(p, rows, G, R) ==
    IF p.sheet > Len(rows)
    THEN [p EXCEPT !.pc = "done"]
    ELSE IF p.rows_processed < rows[p.sheet]
         THEN PlanWhileBody(p, rows, G, R)
         ELSE PlanForBody(p)

RECURSIVE PlanRun(_, _, _, _)
PlanRun(p, rows, G, R) ==
    IF p.pc = "done" THEN p ELSE PlanRun(PlanStep(p, rows, G, R), rows, G, R)

\* the whole function: the returned output_distribution
calculate_output_distribution(rows, G, R) ==
    PlanRun(PlanStart(rows, G, R), rows, G, R)

----------------------------------------------------------------------------
(* Specification of the planner walk *)

InitPlan ==
    /\ sheet_rows \in SizeSeqs(PlanMaxGroups, PlanMaxRows)
    /\ sheets_per_file \in 1..PlanMaxG
    /\ data_rows_per_sheet \in 1..PlanMaxR
    /\ plan = PlanStart(sheet_rows, sheets_per_file, data_rows_per_sheet)
    /\ stream = StreamIdle
    /\ output = NoOutput
    /\ corrupt = {}
    /\ PoolIdle

PlanWhile ==
    /\ plan.pc = "walk"
    /\ plan.sheet <= Len(sheet_rows)
    /\ plan.rows_processed < sheet_rows[plan.sheet]
    /\ plan' = PlanStep(plan, sheet_rows, sheets_per_file, data_rows_per_sheet)
    /\ UNCHANGED <<params, stream, disk, pool, run_result, staging>>

PlanFor ==
    /\ plan.pc = "walk"
    /\ plan.sheet <= Len(sheet_rows)
    /\ plan.rows_processed >= sheet_rows[plan.sheet]
    /\ plan' = PlanStep(plan, sheet_rows, sheets_per_file, data_rows_per_sheet)
    /\ UNCHANGED <<params, stream, disk, pool, run_result, staging>>

PlanReturn ==
    /\ plan.pc = "walk"
    /\ plan.sheet > Len(sheet_rows)
    /\ plan' = PlanStep(plan, sheet_rows, sheets_per_file, data_rows_per_sheet)
    /\ UNCHANGED <<params, stream, disk, pool, run_result, staging>>

NextPlan == PlanWhile \/ PlanFor \/ PlanReturn

SpecPlan == InitPlan /\ [][NextPlan]_vars

----------------------------------------------------------------------------
(* Planner claims *)

\* the targets and the artifacts named by a segment list
SegTargets(segs) ==
    {<<segs[i].output_file, segs[i].output_sheet>> : i \in DOMAIN segs}
SegFiles(segs) == {segs[i].output_file : i \in DOMAIN segs}

\* the records planned so far for target t
RECURSIVE TargetLoad(_, _)
TargetLoad(segs, t) ==
    IF segs = <<>> THEN 0
    ELSE (IF <<Head(segs).output_file, Head(segs).output_sheet>> = t
          THEN Head(segs).num_rows ELSE 0) + TargetLoad(Tail(segs), t)

\* k is the ceiling of a / b
IsCeil(k, a, b) == k * b >= a /\ (k = 0 \/ (k - 1) * b < a)

\* C2: the reported group count is ceil(total_records / R), the reported
\* artifact count is ceil(groups / G), and they are the numbers of distinct
\* targets and of distinct output files named by the returned segment list.
C2_Counts ==
    plan.pc = "done" =>
        /\ IsCeil(plan.total_output_sheets, SumSeq(sheet_rows), data_rows_per_sheet)
        /\ IsCeil(plan.total_output_files, plan.total_output_sheets, sheets_per_file)
        /\ plan.total_output_sheets = Cardinality(SegTargets(plan.data_segments))
        /\ plan.total_output_files = Cardinality(SegFiles(plan.data_segments))

C2_Witness ==
    /\ plan.pc = "done"
    /\ Len(sheet_rows) = 2
    /\ plan.total_output_sheets = 3
    /\ plan.total_output_files = 2
    /\ Len(plan.data_segments) = 4

\* C3: the worked example A (7 records), B (5 records), R = 4, G = 2 gives
\* exactly A[0:4] -> (1,1), A[4:7] -> (1,2), B[0:1] -> (1,2), B[1:5] -> (2,1),
\* with 3 output groups and 2 artifacts.
C3_WorkedExample ==
    (/\ plan.pc = "done"
     /\ sheet_rows = <<7, 5>>
     /\ data_rows_per_sheet = 4
     /\ sheets_per_file = 2) =>
        /\ plan.data_segments =
            << [input_sheet |-> 1, start_row |-> 0, num_rows |-> 4,
                output_file |-> 1, output_sheet |-> 1],
               [input_sheet |-> 1, start_row |-> 4, num_rows |-> 3,
                output_file |-> 1, output_sheet |-> 2],
               [input_sheet |-> 2, start_row |-> 0, num_rows |-> 1,
                output_file |-> 1, output_sheet |-> 2],
               [input_sheet |-> 2, start_row |-> 1, num_rows |-> 4,
                output_file |-> 2, output_sheet |-> 1] >>
        /\ plan.total_output_sheets = 3
        /\ plan.total_output_files = 2

C3_Witness ==
    /\ plan.pc = "done"
    /\ sheet_rows = <<7, 5>>
    /\ data_rows_per_sheet = 4
    /\ sheets_per_file = 2

\* C5: at every step of the walk no target has been assigned more than R
\* records, every segment's output_sheet lies in 1..G, and the files map
\* agrees with the segments assigned so far.
C5_PlanCapacity ==
    plan.pc \in {"walk", "done"} =>
        /\ \A t \in SegTargets(plan.data_segments) :
              TargetLoad(plan.data_segments, t) <= data_rows_per_sheet
        /\ \A i \in DOMAIN plan.data_segments :
              plan.data_segments[i].output_sheet \in 1..sheets_per_file
        /\ \A t \in DOMAIN plan.files :
              plan.files[t] = TargetLoad(plan.data_segments, t)

C5_Witness ==
    /\ plan.pc = "walk"
    /\ \E t \in SegTargets(plan.data_segments) :
          /\ TargetLoad(plan.data_segments, t) = data_rows_per_sheet
          /\ Cardinality({i \in DOMAIN plan.data_segments :
                <<plan.data_segments[i].output_file,
                  plan.data_segments[i].output_sheet>> = t}) = 2
    /\ plan.sheet <= Len(sheet_rows)
    /\ plan.rows_processed < sheet_rows[plan.sheet]

----------------------------------------------------------------------------
(* excel_splitter.split_excel_file_with_optimized_memory *)

\* an empty cell of a worksheet
EmptyCell == <<0, 0>>

\* openpyxl sheet.cell(row = excel_row + r_idx, ...) for every row of data:
\* the worksheet holds its header in row 1 and record k in row k + 1, so
\* the data overlay the records from position excel_row - 1 on
PutRows(recs, excel_row, data) ==
    LET first == excel_row - 1
        last == first + Len(data) - 1
        n == IF last > Len(recs) THEN last ELSE Len(recs)
    IN  [k \in 1..n |->
            IF k >= first /\ k <= last THEN data[k - first + 1]
            ELSE IF k <= Len(recs) THEN recs[k]
            ELSE EmptyCell]

\* df.iloc[from : from + n] (from is 0-based)
Slice(df, from, n) == SubSeq(df, from + 1, Min(from + n, Len(df)))

\* lines 86-95: the state before the first sheet is read
StreamStart(c) ==
    [pc |-> "for",
     chunk_size |-> c,
     sheet |-> 1,
     chunk_start |-> 0,
     df_chunk |-> <<>>,
     chunk_rows_left |-> 0,
     chunk_start_idx |-> 0,
     rows_processed |-> 0,
     current_output_file |-> 1,
     current_sheet_in_file |-> 1,
     current_rows_in_sheet |-> 0]

\* line 154: the current file is closed and a new one is opened
NewFileNeeded_Always(current_sheet_in_file, chunk_rows_left, G) ==
    current_sheet_in_file > G

NewFileNeeded(current_sheet_in_file, chunk_rows_left, G) ==
    current_sheet_in_file > G /\ chunk_rows_left > 0

\* lines 115-169: one iteration of the while loop
StreamWhileBody(st, out, G, R) ==
    LET rows_to_add == Min(st.chunk_rows_left, R - st.current_rows_in_sheet)
        df_to_add == Slice(st.df_chunk, st.chunk_start_idx, rows_to_add)
        t == <<st.current_output_file, st.current_sheet_in_file>>
        out1 == IF st.current_rows_in_sheet = 0
                THEN [x \in DOMAIN out \cup {t} |-> IF x = t THEN df_to_add ELSE out[x]]
                ELSE [out EXCEPT ![t] = PutRows(@, st.current_rows_in_sheet + 2, df_to_add)]
        st1 == [st EXCEPT !.chunk_start_idx = @ + rows_to_add,
                          !.chunk_rows_left = @ - rows_to_add,
                          !.current_rows_in_sheet = @ + rows_to_add,
                          !.rows_processed = @ + rows_to_add]
        st2 == IF st1.current_rows_in_sheet >= R
               THEN IF NewFileNeeded(st1.current_sheet_in_file + 1, st1.chunk_rows_left, G)
                    THEN [st1 EXCEPT !.current_output_file = @ + 1,
                                     !.current_sheet_in_file = 1,
                                     !.current_rows_in_sheet = 0]
                    ELSE [st1 EXCEPT !.current_sheet_in_file = @ + 1,
                                     !.current_rows_in_sheet = 0]
               ELSE st1
    IN  [st |-> st2, out |-> out1]

InitStream ==
    /\ sheet_rows \in SizeSeqs(StreamMaxGroups, StreamMaxRows)
    /\ sheets_per_file \in 1..StreamMaxG
    /\ data_rows_per_sheet \in 1..StreamMaxR
    /\ plan = PlanIdle
    /\ \E c \in 1..StreamMaxChunk : stream = StreamStart(c)
    /\ output = NoOutput
    /\ corrupt = {}
    /\ PoolIdle

\* lines 102-112: the next chunk of the current sheet is read
StreamReadChunk ==
    /\ stream.pc = "for"
    /\ stream.sheet <= Len(sheet_rows)
    /\ stream.chunk_start < sheet_rows[stream.sheet]
    /\ LET row_count == sheet_rows[stream.sheet]
           chunk_end == Min(stream.chunk_start + stream.chunk_size, row_count)
           df == ReadRows(sheet_rows, stream.sheet, stream.chunk_start,
                          chunk_end - stream.chunk_start)
       IN  stream' = [stream EXCEPT !.pc = "while",
                                    !.df_chunk = df,
                                    !.chunk_rows_left = Len(df),
                                    !.chunk_start_idx = 0]
    /\ UNCHANGED <<params, plan, disk, pool, run_result, staging>>

\* lines 114-174: one iteration of the while loop; the chunk loop advances
\* when the chunk is used up
StreamWrite ==
    /\ stream.pc = "while"
    /\ stream.chunk_rows_left > 0
    /\ LET r == StreamWhileBody(stream, output, sheets_per_file, data_rows_per_sheet)
       IN  /\ output' = r.out
           /\ stream' = IF r.st.chunk_rows_left > 0
                        THEN r.st
                        ELSE [r.st EXCEPT !.pc = "for",
                                          !.df_chunk = <<>>,
                                          !.chunk_start = @ + stream.chunk_size]
    /\ UNCHANGED <<params, plan, corrupt, pool, run_result, staging>>

\* lines 98-102: the chunk loop of a sheet ends, the next sheet starts
StreamNextSheet ==
    /\ stream.pc = "for"
    /\ stream.sheet <= Len(sheet_rows)
    /\ stream.chunk_start >= sheet_rows[stream.sheet]
    /\ stream' = [stream EXCEPT !.sheet = @ + 1, !.chunk_start = 0]
    /\ UNCHANGED <<params, plan, disk, pool, run_result, staging>>

\* lines 176-187: the last file is closed
StreamClose ==
    /\ stream.pc = "for"
    /\ stream.sheet > Len(sheet_rows)
    /\ stream' = [stream EXCEPT !.pc = "done"]
    /\ UNCHANGED <<params, plan, disk, pool, run_result, staging>>

NextStream == StreamReadChunk \/ StreamWrite \/ StreamNextSheet \/ StreamClose

SpecStream == InitStream /\ [][NextStream]_vars

\* C4: in every state of the streaming splitter no output sheet holds more
\* than R records and no output file holds more than G sheets.
C4_StreamCapacity ==
    stream.pc \in {"for", "while", "done"} =>
        /\ \A t \in DOMAIN output : Len(output[t]) <= data_rows_per_sheet
        /\ \A f \in FilesOf(output) :
              Cardinality(SheetsOf(output, f)) <= sheets_per_file

\* the part of C4 that the code keeps: no output sheet holds more than R records
StreamSheetCapacity ==
    stream.pc \in {"for", "while", "done"} =>
        \A t \in DOMAIN output : Len(output[t]) <= data_rows_per_sheet

----------------------------------------------------------------------------
(* The lock registry: get_file_lock, the same code in                      *)
(* excel_splitter_rewrite (threads of one process) and                     *)
(* excel_splitter_parallel (one copy of the module per worker process)     *)

\* the process whose module globals worker w uses
ProcOf(w) == IF mode = "segment" THEN 1 ELSE w

NoLock == <<0, 0, 0>>

\* threading.RLock(): a new lock object, created by worker w for path f
NewLock(w, f) == <<ProcOf(w), f, w>>

\* "with file_locks_lock": the registry lock can be taken
RegistryFree_Unguarded(holder) == TRUE

RegistryFree(holder) == holder = 0

\* "with file_lock": the lock can be taken by w (an RLock admits its holder)
CanAcquire(owner, w) == owner = 0 \/ owner = w

\* leaving "with file_lock": the holder after the block, on every exit path
ExitWith_LeakOnError(owner, failed) == IF failed THEN owner ELSE 0

ExitWith(owner, failed) == 0

\* the positions of a worker inside "with file_lock"
InCycle == {"inspect", "write", "fallback"}

\* an output file exists on disk
FileExists(out, cor, f) == f \in FilesOf(out) \/ f \in cor

\* the file is removed or truncated: none of its sheets is left
WithoutFile(out, f) == [t \in DOMAIN out \ SheetsOf(out, f) |-> out[t]]

\* sheet t holds recs, the other sheets are kept
WithSheet(out, t, recs) ==
    [x \in DOMAIN out \cup {t} |-> IF x = t THEN recs ELSE out[x]]

----------------------------------------------------------------------------
(* The futures of the executors                                            *)

\* the unit returned None (a function without a return value)
ReturnedNone == [raised |-> FALSE, value |-> "None"]

\* the unit returned v
ReturnedValue(v) == [raised |-> FALSE, value |-> v]

\* the unit raised and future.result() raises in the coordinator
RaisedError == [raised |-> TRUE, value |-> "Exception"]

\* the future of unit u completes with result r; not_stored tells whether
\* the unit ended without having stored its records
Completed(u, r, not_stored) ==
    /\ finished' = finished \cup {u}
    /\ results' = [x \in DOMAIN results \cup {u} |-> IF x = u THEN r ELSE results[x]]
    /\ failed_units' = IF not_stored THEN failed_units \cup {u} ELSE failed_units

----------------------------------------------------------------------------
(* excel_splitter_rewrite: process_data_segment under the thread pool of   *)
(* split_excel_file_distributed                                            *)

\* lines 81-110
read_sheet_data(rows, sheet_name, start_row, num_rows) ==
    IF start_row = 0
    THEN ReadRows(rows, sheet_name, 0, num_rows)
    ELSE ReadRows(rows, sheet_name, start_row, num_rows)

SegWorkerIdle ==
    [pc |-> "idle", unit |-> 0, df |-> <<>>, file_lock |-> NoLock,
     missing |-> FALSE, file_exists |-> FALSE, sheet_exists |-> FALSE,
     failed |-> FALSE]

\* the segment a worker is processing
SegOf(w) == data_segments[worker[w].unit]
PathOf(w) == SegOf(w).output_file
TargetOf(w) == <<SegOf(w).output_file, SegOf(w).output_sheet>>

\* lines 319, 336: df.iloc[1:] if include_header else df
RowsToAppend(df, start_row) == IF start_row = 0 THEN Tail(df) ELSE df

\* lines 306-322: the primary write cannot succeed
PrimaryMustFail(out, cor, wk, seg) ==
    LET f == seg.output_file
        t == <<seg.output_file, seg.output_sheet>>
    IN  \/ wk.file_exists /\ (f \notin FilesOf(out) \/ f \in cor)
        \/ wk.sheet_exists /\ t \notin DOMAIN out

\* lines 306-322: the stored sheets after a successful primary write
PrimaryWrite(out, wk, seg) ==
    LET f == seg.output_file
        t == <<seg.output_file, seg.output_sheet>>
    IN  IF ~wk.file_exists
        THEN WithSheet(WithoutFile(out, f), t, wk.df)
        ELSE IF ~wk.sheet_exists
             THEN WithSheet(out, t,
                      PutRows(IF t \in DOMAIN out THEN out[t] ELSE <<>>, 2, wk.df))
             ELSE LET existing_data == out[t]
                      combined_data ==
                          existing_data \o RowsToAppend(wk.df, seg.start_row)
                  IN  WithSheet(out, t, PutRows(existing_data, 2, combined_data))

\* lines 328-345: the stored sheets after a successful fallback rewrite
FallbackWrite(out, wk, seg) ==
    LET t == <<seg.output_file, seg.output_sheet>>
    IN  IF t \in DOMAIN out
        THEN WithSheet(out, t, out[t] \o RowsToAppend(wk.df, seg.start_row))
        ELSE WithSheet(out, t, wk.df)

SegStartOf(maxGroups, maxTotal, maxG, maxWorkers) ==
    /\ sheet_rows \in SizeSeqsTotal(maxGroups, maxTotal)
    /\ sheets_per_file \in 1..maxG
    /\ data_rows_per_sheet \in 1..maxTotal
    /\ plan = calculate_output_distribution(
                  sheet_rows, sheets_per_file, data_rows_per_sheet)
    /\ stream = StreamIdle
    /\ output = NoOutput
    /\ corrupt = {}
    /\ mode = "segment"
    /\ data_segments = plan.data_segments
    /\ next_unit = 1
    /\ \E max_workers \in 1..maxWorkers :
          worker = [w \in 1..Min(max_workers, Len(data_segments)) |-> SegWorkerIdle]
    /\ file_locks = [p \in {1} |-> <<>>]
    /\ file_locks_lock = [p \in {1} |-> 0]
    /\ lock_owner = <<>>
    /\ finished = {}
    /\ chunk_size = 0
    /\ faults = 0
    /\ results = <<>>
    /\ failed_units = {}
    /\ run_result = Running
    /\ input_analysis = Analysed(sheet_rows, {})
    /\ StagingIdle

InitSeg == SegStartOf(SegMaxGroups, SegMaxTotal, SegMaxG, SegMaxWorkers)

\* lines 395-400 and 261-280: a pool thread takes the next segment of the
\* queue and reads its records
SegStart(w) ==
    /\ mode = "segment"
    /\ worker[w].pc = "idle"
    /\ next_unit <= Len(data_segments)
    /\ LET seg == data_segments[next_unit]
           df == read_sheet_data(sheet_rows, seg.input_sheet, seg.start_row, seg.num_rows)
       IN  IF df = <<>>
           THEN /\ Completed(next_unit, ReturnedNone, TRUE)
                /\ UNCHANGED worker
           ELSE /\ worker' = [worker EXCEPT ![w] =
                       [SegWorkerIdle EXCEPT !.pc = "registry", !.unit = next_unit,
                                             !.df = df]]
                /\ UNCHANGED <<finished, results, failed_units>>
    /\ next_unit' = next_unit + 1
    /\ UNCHANGED <<fixed, disk, file_locks,
                   file_locks_lock, lock_owner, faults>>

\* lines 42-43: with file_locks_lock: if file_path not in file_locks
SegRegistryEnter(w) ==
    /\ mode = "segment"
    /\ worker[w].pc = "registry"
    /\ RegistryFree(file_locks_lock[ProcOf(w)])
    /\ file_locks_lock' = [file_locks_lock EXCEPT ![ProcOf(w)] = w]
    /\ worker' = [worker EXCEPT
                    ![w].pc = "registry_return",
                    ![w].missing = PathOf(w) \notin DOMAIN file_locks[ProcOf(w)]]
    /\ UNCHANGED <<fixed, disk, next_unit,
                   file_locks, lock_owner, finished, results, failed_units, faults>>

\* lines 44-45: the lock is created if it was missing, returned, and the
\* registry lock is released
SegRegistryReturn(w) ==
    /\ mode = "segment"
    /\ worker[w].pc = "registry_return"
    /\ LET p == ProcOf(w)
           f == PathOf(w)
           locks == IF worker[w].missing
                    THEN [x \in DOMAIN file_locks[p] \cup {f} |->
                             IF x = f THEN NewLock(w, f) ELSE file_locks[p][x]]
                    ELSE file_locks[p]
       IN  /\ file_locks' = [file_locks EXCEPT ![p] = locks]
           /\ lock_owner' = IF worker[w].missing
                            THEN [l \in DOMAIN lock_owner \cup {NewLock(w, f)} |->
                                     IF l = NewLock(w, f) THEN 0 ELSE lock_owner[l]]
                            ELSE lock_owner
           /\ worker' = [worker EXCEPT ![w].pc = "acquire", ![w].file_lock = locks[f]]
           /\ file_locks_lock' = [file_locks_lock EXCEPT
                                     ![p] = IF @ = w THEN 0 ELSE @]
    /\ UNCHANGED <<fixed, disk, next_unit,
                   finished, results, failed_units, faults>>

\* line 284: with file_lock
SegAcquire(w) ==
    /\ mode = "segment"
    /\ worker[w].pc = "acquire"
    /\ CanAcquire(lock_owner[worker[w].file_lock], w)
    /\ lock_owner' = [lock_owner EXCEPT ![worker[w].file_lock] = w]
    /\ worker' = [worker EXCEPT ![w].pc = "inspect"]
    /\ UNCHANGED <<fixed, disk, next_unit,
                   file_locks, file_locks_lock, finished, results, failed_units, faults>>

\* lines 286-298: file_exists, sheet_exists and the writer mode
SegInspect(w) ==
    /\ mode = "segment"
    /\ worker[w].pc = "inspect"
    /\ LET f == PathOf(w)
           exists == FileExists(output, corrupt, f)
           readable == exists /\ f \notin corrupt
       IN  worker' = [worker EXCEPT
                        ![w].pc = "write",
                        ![w].file_exists = readable,
                        ![w].sheet_exists = readable /\ TargetOf(w) \in DOMAIN output]
    /\ UNCHANGED <<fixed, disk, next_unit,
                   file_locks, file_locks_lock, lock_owner, finished, results, failed_units, faults>>

\* line 284: the with block is left (on any exit path); the future
\* completes and the thread is free for the next segment of the queue
SegExit(w, not_stored) ==
    /\ lock_owner' = [lock_owner EXCEPT ![worker[w].file_lock] =
                         IF @ = w THEN ExitWith(@, worker[w].failed) ELSE @]
    /\ Completed(worker[w].unit, ReturnedNone, not_stored)
    /\ worker' = [worker EXCEPT ![w] = SegWorkerIdle]

\* lines 300-322: the primary write completes
SegWriteOk(w) ==
    /\ mode = "segment"
    /\ worker[w].pc = "write"
    /\ ~PrimaryMustFail(output, corrupt, worker[w], SegOf(w))
    /\ output' = PrimaryWrite(output, worker[w], SegOf(w))
    /\ corrupt' = corrupt \ {PathOf(w)}
    /\ SegExit(w, FALSE)
    /\ UNCHANGED <<fixed, next_unit,
                   file_locks, file_locks_lock, faults>>

\* lines 300-324: the primary write raises; the file is left as it was or,
\* when the error came after the file was opened for writing, unreadable
SegWriteFail(w) ==
    /\ mode = "segment"
    /\ worker[w].pc = "write"
    /\ \/ /\ PrimaryMustFail(output, corrupt, worker[w], SegOf(w))
          /\ UNCHANGED faults
       \/ /\ faults < MaxFaults
          /\ faults' = faults + 1
    /\ \/ UNCHANGED disk
       \/ /\ output' = WithoutFile(output, PathOf(w))
          /\ corrupt' = corrupt \cup {PathOf(w)}
    /\ worker' = [worker EXCEPT ![w].pc = "fallback", ![w].failed = TRUE]
    /\ UNCHANGED <<fixed, next_unit,
                   file_locks, file_locks_lock, lock_owner, finished, results, failed_units>>

\* lines 326-345: the fallback reads every sheet and rewrites the file
SegFallbackOk(w) ==
    /\ mode = "segment"
    /\ worker[w].pc = "fallback"
    /\ PathOf(w) \in FilesOf(output)
    /\ PathOf(w) \notin corrupt
    /\ output' = FallbackWrite(output, worker[w], SegOf(w))
    /\ SegExit(w, FALSE)
    /\ UNCHANGED <<fixed, corrupt, next_unit,
                   file_locks, file_locks_lock, faults>>

\* lines 326-347: the fallback raises (the file is missing or unreadable,
\* or an I/O error) and the error is logged
SegFallbackFail(w) ==
    /\ mode = "segment"
    /\ worker[w].pc = "fallback"
    /\ \/ /\ ~(PathOf(w) \in FilesOf(output) /\ PathOf(w) \notin corrupt)
          /\ UNCHANGED <<disk, faults>>
       \/ /\ PathOf(w) \in FilesOf(output) /\ PathOf(w) \notin corrupt
          /\ faults < MaxFaults
          /\ faults' = faults + 1
          /\ \/ UNCHANGED disk
             \/ /\ output' = WithoutFile(output, PathOf(w))
                /\ corrupt' = corrupt \cup {PathOf(w)}
    /\ SegExit(w, TRUE)
    /\ UNCHANGED <<fixed, next_unit,
                   file_locks, file_locks_lock>>

\* lines 393-416: the executor is closed once every future has completed
\* and the planned file count is returned; with no segment at all,
\* ThreadPoolExecutor(max_workers=0) raises ValueError
SegReturn ==
    /\ mode = "segment"
    /\ run_result = Running
    /\ finished = DOMAIN data_segments
    /\ run_result' =
          IF data_segments = <<>>
          THEN Raised("ValueError")
          ELSE Returned(plan.total_output_files)
    /\ UNCHANGED <<params, plan, stream, disk, pool, staging>>

SegStep(w) ==
    \/ SegStart(w)
    \/ SegRegistryEnter(w)
    \/ SegRegistryReturn(w)
    \/ SegAcquire(w)
    \/ SegInspect(w)
    \/ SegWriteOk(w)
    \/ SegWriteFail(w)
    \/ SegFallbackOk(w)
    \/ SegFallbackFail(w)

NextSeg ==
    \/ \E w \in DOMAIN worker : SegStart(w)
    \/ \E w \in DOMAIN worker : SegRegistryEnter(w)
    \/ \E w \in DOMAIN worker : SegRegistryReturn(w)
    \/ \E w \in DOMAIN worker : SegAcquire(w)
    \/ \E w \in DOMAIN worker : SegInspect(w)
    \/ \E w \in DOMAIN worker : SegWriteOk(w)
    \/ \E w \in DOMAIN worker : SegWriteFail(w)
    \/ \E w \in DOMAIN worker : SegFallbackOk(w)
    \/ \E w \in DOMAIN worker : SegFallbackFail(w)
    \/ SegReturn

SpecSeg == InitSeg /\ [][NextSeg]_vars

\* lines 403-416: every future has completed and the run returns
SegRunFinished ==
    /\ mode = "segment"
    /\ finished = DOMAIN data_segments

----------------------------------------------------------------------------
(* excel_splitter_parallel: process_sheet in the worker processes of       *)
(* split_excel_file_parallel.  Unit i is input sheet i, worker_id = i - 1. *)

ParWorkerIdle ==
    [pc |-> "idle", unit |-> 0, sheet_name |-> <<"in", 0>>, data_rows |-> 0,
     chunk_size |-> 0,
     total_files_needed |-> 0, files_info |-> <<>>, chunk_start |-> 0,
     df_chunk |-> <<>>, chunk_rows_left |-> 0, chunk_start_idx |-> 0,
     file_idx |-> 0, sheet_idx |-> 0, rows_to_add |-> 0, df_to_add |-> <<>>,
     file_lock |-> NoLock, file_exists |-> FALSE, failed |-> FALSE]

\* lines 160-176: the locals of process_sheet before the chunk loop;
\* chunk_size 0 stands for None
ParUnitStart(rows, unit, c, G, R) ==
    [ParWorkerIdle EXCEPT
        !.pc = "chunk",
        !.unit = unit,
        !.sheet_name = <<"in", unit>>,
        !.data_rows = rows[unit],
        !.chunk_size = IF c <= 0 THEN rows[unit] + 1 ELSE c,
        !.total_files_needed = Ceil(rows[unit], R * G)]

\* lines 313-325: chunk_size None becomes the row count (header included)
\* of the first input sheet
ParChunkSize(rows, c) == IF c = 0 THEN rows[1] + 1 ELSE c

\* lines 200-207: the output file and sheet of a row position
ParFileIdx(wk, pos, G, R) ==
    ((wk.unit - 1) * wk.total_files_needed) + (pos \div (R * G)) + 1
ParSheetIdx(pos, G, R) == ((pos % (R * G)) \div R) + 1

\* lines 217-228: files_info with the current target registered
ParRegistered(wk) ==
    LET t == <<wk.file_idx, wk.sheet_idx>>
    IN  IF t \in DOMAIN wk.files_info THEN wk.files_info
        ELSE [x \in DOMAIN wk.files_info \cup {t} |->
                 IF x = t THEN 0 ELSE wk.files_info[x]]

\* line 224
ParCurrentRows(wk) == wk.files_info[<<wk.file_idx, wk.sheet_idx>>]

\* line 258: the start_row handed to write_data_to_sheet
AppendStartRow_AfterHeader(current_rows) == current_rows + 1

AppendStartRow(current_rows) == current_rows

\* lines 69-107 with start_row # 0: the sheet exists, the rows are written
\* from Excel row start_row + 1 on
write_data_to_sheet(recs, data, start_row) == PutRows(recs, start_row + 1, data)

\* lines 241-258: the primary write cannot succeed
ParPrimaryMustFail(out, cor, wk) ==
    LET f == wk.file_idx
        t == <<wk.file_idx, wk.sheet_idx>>
    IN  /\ wk.file_exists
        /\ \/ f \notin FilesOf(out)
           \/ f \in cor
           \/ ParCurrentRows(wk) > 0 /\ t \notin DOMAIN out

\* lines 241-258: the stored sheets after a successful primary write
ParPrimaryWrite(out, wk) ==
    LET f == wk.file_idx
        t == <<wk.file_idx, wk.sheet_idx>>
    IN  IF ~wk.file_exists
        THEN WithSheet(WithoutFile(out, f), t, wk.df_to_add)
        ELSE IF ParCurrentRows(wk) = 0
             THEN WithSheet(out, t,
                      PutRows(IF t \in DOMAIN out THEN out[t] ELSE <<>>, 2, wk.df_to_add))
             ELSE WithSheet(out, t,
                      write_data_to_sheet(out[t], wk.df_to_add,
                                          AppendStartRow(ParCurrentRows(wk))))

\* lines 263-274: the stored sheets after a successful recovery rewrite
ParRecoverWrite(out, wk) ==
    LET t == <<wk.file_idx, wk.sheet_idx>>
    IN  IF t \in DOMAIN out
        THEN IF ParCurrentRows(wk) > 0
             THEN WithSheet(out, t, out[t] \o wk.df_to_add)
             ELSE out
        ELSE IF ParCurrentRows(wk) = 0
             THEN WithSheet(out, t, wk.df_to_add)
             ELSE out

\* lines 266, 270: the loop variable of the recovery rewrite rebinds
\* sheet_name to the last sheet of the output file
LastSheetName(out, f) ==
    <<"out", CHOOSE k \in {t[2] : t \in SheetsOf(out, f)} :
                 \A t \in SheetsOf(out, f) : t[2] <= k>>

\* the positions of a worker inside "with file_lock"
ParInCycle == {"par_inspect", "par_write", "par_recover"}

ParStartOf(maxGroups, maxTotal, maxG, maxWorkers, maxChunk) ==
    /\ sheet_rows \in SizeSeqsTotal(maxGroups, maxTotal)
    /\ sheets_per_file \in 1..maxG
    /\ data_rows_per_sheet \in 1..maxTotal
    /\ plan = PlanIdle
    /\ stream = StreamIdle
    /\ output = NoOutput
    /\ corrupt = {}
    /\ mode = "parallel"
    /\ data_segments = <<>>
    /\ next_unit = 1
    /\ \E max_workers \in 1..maxWorkers :
          /\ worker = [w \in 1..Min(max_workers, Len(sheet_rows)) |-> ParWorkerIdle]
          /\ file_locks = [w \in 1..Min(max_workers, Len(sheet_rows)) |-> <<>>]
          /\ file_locks_lock = [w \in 1..Min(max_workers, Len(sheet_rows)) |-> 0]
    /\ lock_owner = <<>>
    /\ finished = {}
    /\ \E c \in 0..maxChunk : chunk_size = ParChunkSize(sheet_rows, c)
    /\ faults = 0
    /\ results = <<>>
    /\ failed_units = {}
    /\ run_result = Running
    /\ input_analysis = NoAnalysis
    /\ StagingIdle

InitPar == ParStartOf(ParMaxGroups, ParMaxTotal, ParMaxG, ParMaxWorkers, ParMaxChunk)

\* lines 353-369 and 160-176: a pool process takes the next input sheet
ParStart(w) ==
    /\ mode = "parallel"
    /\ worker[w].pc = "idle"
    /\ next_unit <= Len(sheet_rows)
    /\ worker' = [worker EXCEPT ![w] =
                    ParUnitStart(sheet_rows, next_unit, chunk_size,
                                 sheets_per_file, data_rows_per_sheet)]
    /\ next_unit' = next_unit + 1
    /\ UNCHANGED <<fixed, disk, file_locks,
                   file_locks_lock, lock_owner, finished, results, failed_units, faults>>

\* lines 179-196: the next chunk is read from sheet_name
ParReadChunk(w) ==
    /\ mode = "parallel"
    /\ worker[w].pc = "chunk"
    /\ worker[w].chunk_start < worker[w].data_rows
    /\ worker[w].sheet_name[1] = "in"
    /\ LET wk == worker[w]
           chunk_end == Min(wk.chunk_start + wk.chunk_size, wk.data_rows)
           df == ReadRows(sheet_rows, wk.sheet_name[2], wk.chunk_start,
                          chunk_end - wk.chunk_start)
       IN  worker' = [worker EXCEPT ![w].pc = "par_while",
                                    ![w].df_chunk = df,
                                    ![w].chunk_rows_left = Len(df),
                                    ![w].chunk_start_idx = 0]
    /\ UNCHANGED <<fixed, disk, next_unit,
                   file_locks, file_locks_lock, lock_owner, finished, results, failed_units, faults>>

\* lines 179, 292: the chunk loop ends and files_info is returned; or the
\* read of a chunk raises because sheet_name no longer names the input sheet
ParReturn(w) ==
    /\ mode = "parallel"
    /\ worker[w].pc = "chunk"
    /\ IF worker[w].chunk_start >= worker[w].data_rows
       THEN Completed(worker[w].unit, ReturnedValue(worker[w].files_info), FALSE)
       ELSE /\ worker[w].sheet_name[1] # "in"
            /\ Completed(worker[w].unit, RaisedError, TRUE)
    /\ worker' = [worker EXCEPT ![w] = ParWorkerIdle]
    /\ UNCHANGED <<fixed, disk, next_unit,
                   file_locks, file_locks_lock, lock_owner, faults>>

\* lines 198-231: the target of the next rows is computed and its lock is
\* fetched from the registry of this process; when the chunk is used up
\* the chunk loop advances
ParLoopHead(w) ==
    /\ mode = "parallel"
    /\ worker[w].pc = "par_while"
    /\ LET wk == worker[w]
           G == sheets_per_file
           R == data_rows_per_sheet
           pos == wk.chunk_start + wk.chunk_start_idx
           sheet0 == ParSheetIdx(pos, G, R)
           wk1 == [wk EXCEPT
                     !.file_idx = ParFileIdx(wk, pos, G, R) + (IF sheet0 > G THEN 1 ELSE 0),
                     !.sheet_idx = IF sheet0 > G THEN 1 ELSE sheet0]
           wk2 == [wk1 EXCEPT !.files_info = ParRegistered(wk1)]
           n == Min(wk2.chunk_rows_left, R - ParCurrentRows(wk2))
           f == wk2.file_idx
           known == f \in DOMAIN file_locks[w]
           lk == IF known THEN file_locks[w][f] ELSE NewLock(w, f)
       IN  IF wk.chunk_rows_left > 0
           THEN /\ worker' = [worker EXCEPT ![w] =
                       [wk2 EXCEPT !.pc = "par_acquire",
                                   !.rows_to_add = n,
                                   !.df_to_add = Slice(wk2.df_chunk, wk2.chunk_start_idx, n),
                                   !.file_lock = lk,
                                   !.failed = FALSE]]
                /\ file_locks' = [file_locks EXCEPT ![w] =
                       [x \in DOMAIN @ \cup {f} |-> IF x = f THEN lk ELSE @[x]]]
                /\ lock_owner' = IF known THEN lock_owner
                                 ELSE [l \in DOMAIN lock_owner \cup {lk} |->
                                          IF l = lk THEN 0 ELSE lock_owner[l]]
           ELSE /\ worker' = [worker EXCEPT ![w].pc = "chunk",
                                            ![w].df_chunk = <<>>,
                                            ![w].chunk_start = @ + wk.chunk_size]
                /\ UNCHANGED <<file_locks, lock_owner>>
    /\ UNCHANGED <<fixed, disk, next_unit,
                   file_locks_lock, finished, results, failed_units, faults>>

\* line 232: with file_lock
ParAcquire(w) ==
    /\ mode = "parallel"
    /\ worker[w].pc = "par_acquire"
    /\ CanAcquire(lock_owner[worker[w].file_lock], w)
    /\ lock_owner' = [lock_owner EXCEPT ![worker[w].file_lock] = w]
    /\ worker' = [worker EXCEPT ![w].pc = "par_inspect"]
    /\ UNCHANGED <<fixed, disk, next_unit,
                   file_locks, file_locks_lock, finished, results, failed_units, faults>>

\* lines 235-241: file_exists (an unreadable file is taken to be non-empty)
ParInspect(w) ==
    /\ mode = "parallel"
    /\ worker[w].pc = "par_inspect"
    /\ worker' = [worker EXCEPT
                    ![w].pc = "par_write",
                    ![w].file_exists = FileExists(output, corrupt, worker[w].file_idx)]
    /\ UNCHANGED <<fixed, disk, next_unit,
                   file_locks, file_locks_lock, lock_owner, finished, results, failed_units, faults>>

\* lines 283-285 after the with block is left: the counters advance
ParAdvance(w, clobbered) ==
    /\ lock_owner' = [lock_owner EXCEPT ![worker[w].file_lock] =
                         IF @ = w THEN ExitWith(@, worker[w].failed) ELSE @]
    /\ worker' = [worker EXCEPT
                    ![w].pc = "par_while",
                    ![w].files_info[<<worker[w].file_idx, worker[w].sheet_idx>>] =
                        @ + worker[w].rows_to_add,
                    ![w].chunk_start_idx = @ + worker[w].rows_to_add,
                    ![w].chunk_rows_left = @ - worker[w].rows_to_add,
                    ![w].sheet_name = IF clobbered
                                      THEN LastSheetName(output, worker[w].file_idx)
                                      ELSE @]

\* lines 277, 280: continue: the with block is left, the counters stay
ParContinue(w) ==
    /\ lock_owner' = [lock_owner EXCEPT ![worker[w].file_lock] =
                         IF @ = w THEN ExitWith(@, TRUE) ELSE @]
    /\ worker' = [worker EXCEPT ![w].pc = "par_while", ![w].failed = TRUE]

\* lines 241-258: the primary write completes
ParWriteOk(w) ==
    /\ mode = "parallel"
    /\ worker[w].pc = "par_write"
    /\ ~ParPrimaryMustFail(output, corrupt, worker[w])
    /\ output' = ParPrimaryWrite(output, worker[w])
    /\ corrupt' = corrupt \ {worker[w].file_idx}
    /\ ParAdvance(w, FALSE)
    /\ UNCHANGED <<fixed, next_unit,
                   file_locks, file_locks_lock, finished, results, failed_units, faults>>

\* lines 241-260, 278-280: the primary write raises.  Creating a new file
\* (mode w) is guarded by the outer handler only: continue.  Updating an
\* existing file goes on to the recovery rewrite.
ParWriteFail(w) ==
    /\ mode = "parallel"
    /\ worker[w].pc = "par_write"
    /\ \/ /\ ParPrimaryMustFail(output, corrupt, worker[w])
          /\ UNCHANGED faults
       \/ /\ faults < MaxFaults
          /\ faults' = faults + 1
    /\ \/ UNCHANGED disk
       \/ /\ output' = WithoutFile(output, worker[w].file_idx)
          /\ corrupt' = corrupt \cup {worker[w].file_idx}
    /\ IF worker[w].file_exists
       THEN /\ worker' = [worker EXCEPT ![w].pc = "par_recover", ![w].failed = TRUE]
            /\ UNCHANGED lock_owner
       ELSE ParContinue(w)
    /\ UNCHANGED <<fixed, next_unit,
                   file_locks, file_locks_lock, finished, results, failed_units>>

\* lines 262-274: the recovery reads every sheet and rewrites the file
ParRecoverOk(w) ==
    /\ mode = "parallel"
    /\ worker[w].pc = "par_recover"
    /\ worker[w].file_idx \in FilesOf(output)
    /\ worker[w].file_idx \notin corrupt
    /\ output' = ParRecoverWrite(output, worker[w])
    /\ ParAdvance(w, TRUE)
    /\ UNCHANGED <<fixed, corrupt, next_unit,
                   file_locks, file_locks_lock, finished, results, failed_units, faults>>

\* lines 262-277: the recovery raises and the loop continues
ParRecoverFail(w) ==
    /\ mode = "parallel"
    /\ worker[w].pc = "par_recover"
    /\ LET readable == worker[w].file_idx \in FilesOf(output)
                       /\ worker[w].file_idx \notin corrupt
       IN  \/ /\ ~readable
              /\ UNCHANGED <<disk, faults>>
           \/ /\ readable
              /\ faults < MaxFaults
              /\ faults' = faults + 1
              /\ \/ UNCHANGED disk
                 \/ /\ output' = WithoutFile(output, worker[w].file_idx)
                    /\ corrupt' = corrupt \cup {worker[w].file_idx}
    /\ ParContinue(w)
    /\ UNCHANGED <<fixed, next_unit,
                   file_locks, file_locks_lock, finished, results, failed_units>>

\* the output files named by the results that did not raise
ParAllFilesInfo(res) ==
    UNION {{t[1] : t \in DOMAIN res[u].value} : u \in {x \in DOMAIN res : ~res[x].raised}}

\* lines 371-396: the results are merged as the futures complete and
\* len(all_files_info) is returned
ParRunReturn ==
    /\ mode = "parallel"
    /\ run_result = Running
    /\ finished = DOMAIN sheet_rows
    /\ run_result' = Returned(Cardinality(ParAllFilesInfo(results)))
    /\ UNCHANGED <<params, plan, stream, disk, pool, staging>>

ParStep(w) ==
    \/ ParStart(w)
    \/ ParReadChunk(w)
    \/ ParReturn(w)
    \/ ParLoopHead(w)
    \/ ParAcquire(w)
    \/ ParInspect(w)
    \/ ParWriteOk(w)
    \/ ParWriteFail(w)
    \/ ParRecoverOk(w)
    \/ ParRecoverFail(w)

NextPar ==
    \/ \E w \in DOMAIN worker : ParStart(w)
    \/ \E w \in DOMAIN worker : ParReadChunk(w)
    \/ \E w \in DOMAIN worker : ParReturn(w)
    \/ \E w \in DOMAIN worker : ParLoopHead(w)
    \/ \E w \in DOMAIN worker : ParAcquire(w)
    \/ \E w \in DOMAIN worker : ParInspect(w)
    \/ \E w \in DOMAIN worker : ParWriteOk(w)
    \/ \E w \in DOMAIN worker : ParWriteFail(w)
    \/ \E w \in DOMAIN worker : ParRecoverOk(w)
    \/ \E w \in DOMAIN worker : ParRecoverFail(w)
    \/ ParRunReturn

SpecPar == InitPar /\ [][NextPar]_vars

----------------------------------------------------------------------------
(* The two-phase mode of excel_splitter_db.py: a process pool stages the
   input groups in a database, then the output sheets are written one
   after another from the staged records *)

\* what no step of the two-phase mode changes
dbfixed == <<params, plan, stream, mode, data_segments, file_locks,
             file_locks_lock, lock_owner, chunk_size, num_columns>>

\* lines 99-102: df.iloc[:, 0:2] renamed serial, qri: of a record only the
\* first two fields reach the database; a record of two fields is kept whole
StagedFields(rec, width) ==
    IF width = 2 THEN rec ELSE <<rec[1], rec[2], 2>>

\* lines 93-109: the rows read_sheet_to_db hands to to_sql for input sheet
\* sheet_idx, row_num counting from 1; a sheet of fewer than two columns
\* stages nothing (lines 110-111)
StagedRows(rows, sheet_idx, width) ==
    IF width >= 2
    THEN [k \in 1..rows[sheet_idx] |->
             [source_sheet |-> sheet_idx, row_num |-> k,
              rec |-> StagedFields(<<sheet_idx, k - 1>>, width)]]
    ELSE <<>>

\* row a sorts before row b under ORDER BY source_sheet, row_num
RowBefore(a, b) ==
    \/ a.source_sheet < b.source_sheet
    \/ a.source_sheet = b.source_sheet /\ a.row_num < b.row_num

\* the rows at the positions left, smallest key first
RECURSIVE OrderedFrom(_, _)
OrderedFrom(rows, left) ==
    IF left = {} THEN <<>>
    ELSE LET first == CHOOSE a \in left :
                          \A b \in left \ {a} : ~RowBefore(rows[b], rows[a])
         IN  <<rows[first]>> \o OrderedFrom(rows, left \ {first})

\* a query without ORDER BY: the rows come in the order of their insertion
OrderBy_Insertion(rows) == rows

\* line 220: ORDER BY source_sheet, row_num
OrderBy(rows) == OrderedFrom(rows, DOMAIN rows)

\* lines 216-227: SELECT serial, qri ... ORDER BY ... LIMIT row_count
\* OFFSET start_row - 1
get_data_for_sheet(rows, start_row, row_count) ==
    LET ordered == OrderBy(rows)
        limited == SubSeq(ordered, start_row, Min(start_row - 1 + row_count, Len(ordered)))
    IN  [k \in DOMAIN limited |-> limited[k].rec]

\* lines 124-139: SELECT COUNT(*) FROM excel_data
count_data_rows(st) == Len(st.rows)

\* an ingestion process without a unit
DbWorkerIdle == [pc |-> "idle", unit |-> 0]

\* lines 373-411 of split_excel_with_db: the locals of a run before the
\* database is looked for; reuse tells whether custom_db_path names the
\* database an earlier run retained; custom_db_path tells whether a path
\* was given, and without one a temporary directory is made (lines
\* 403-405); output_dir tells whether the output directory exists
DbBegin(run, delete_db, reuse, before, custom_db_path, output_dir) ==
    [pc |-> "begin", run |-> run, delete_db |-> delete_db, reuse |-> reuse,
     failed_before |-> before, total_data_rows |-> 0, total_rows |-> 0,
     total_sheets |-> 0, total_files |-> 0, sheet |-> 1,
     custom_db_path |-> custom_db_path, temp_dir |-> ~custom_db_path,
     output_dir |-> output_dir]

DbStartOf(maxGroups, maxTotal, maxG, maxWorkers, maxColumns, customs, dirs) ==
    /\ sheet_rows \in SizeSeqsTotal(maxGroups, maxTotal)
    /\ sheets_per_file \in 1..maxG
    /\ data_rows_per_sheet \in 1..maxTotal
    /\ plan = PlanIdle
    /\ stream = StreamIdle
    /\ output = NoOutput
    /\ corrupt = {}
    /\ mode = "db"
    /\ data_segments = <<>>
    /\ next_unit = 1
    /\ worker = [w \in 1..Min(maxWorkers, Len(sheet_rows)) |-> DbWorkerIdle]
    /\ file_locks = <<>>
    /\ file_locks_lock = <<>>
    /\ lock_owner = <<>>
    /\ finished = {}
    /\ chunk_size = 0
    /\ faults = 0
    /\ results = <<>>
    /\ failed_units = {}
    /\ run_result = Running
    /\ input_analysis = NoAnalysis
    /\ num_columns \in 1..maxColumns
    /\ store = NoStore
    /\ \E delete_db \in BOOLEAN, custom_db_path \in customs, output_dir \in dirs :
          db = DbBegin(1, delete_db, FALSE, {}, custom_db_path, output_dir)

\* a run without custom_db_path into an output directory that is yet to be
\* made
InitDb ==
    DbStartOf(DbMaxGroups, DbMaxTotal, DbMaxG, DbMaxWorkers, DbMaxColumns,
              {FALSE}, {FALSE})

\* lines 413-425: db_exists = os.path.exists(db_path); only a database that
\* does not exist yet is created and filled from the input
DbOpen ==
    /\ mode = "db"
    /\ db.pc = "begin"
    /\ IF store.exists
       THEN /\ db' = [db EXCEPT !.pc = "count"]
            /\ UNCHANGED store
       ELSE /\ db' = [db EXCEPT !.pc = "ingest"]
            /\ store' = [exists |-> TRUE, rows |-> <<>>,
                         at |-> IF db.custom_db_path THEN "custom" ELSE "temp"]
    /\ UNCHANGED <<dbfixed, disk, next_unit, worker, finished, faults,
                   results, failed_units, run_result>>

\* lines 352-357: a pool process takes the next sheet of the queue; idle
\* processes do not differ from one another, so the first of them takes it
DbTake(w) ==
    /\ mode = "db"
    /\ db.pc = "ingest"
    /\ worker[w].pc = "idle"
    /\ \A v \in 1..(w - 1) : worker[v].pc # "idle"
    /\ next_unit <= Len(sheet_rows)
    /\ worker' = [worker EXCEPT ![w] = [pc |-> "read_sheet_to_db", unit |-> next_unit]]
    /\ next_unit' = next_unit + 1
    /\ UNCHANGED <<dbfixed, disk, finished, faults, results, failed_units,
                   run_result, store, db>>

\* lines 88-118 of read_sheet_to_db: the sheet is read and its rows are
\* appended by one to_sql call, which is one transaction; the rows of
\* concurrent processes are stored in the order of their commits; the
\* function returns len(df) - 1
DbIngestOk(w) ==
    /\ mode = "db"
    /\ worker[w].pc = "read_sheet_to_db"
    /\ LET u == worker[w].unit
       IN  /\ store' = [store EXCEPT !.rows = @ \o StagedRows(sheet_rows, u, num_columns)]
           /\ Completed(u, ReturnedValue(sheet_rows[u] - 1), FALSE)
    /\ worker' = [worker EXCEPT ![w] = DbWorkerIdle]
    /\ UNCHANGED <<dbfixed, disk, next_unit, faults, run_result, db>>

\* lines 120-122: reading or storing raised; the transaction is rolled
\* back, the error is logged and 0 is returned
DbIngestFail(w) ==
    /\ mode = "db"
    /\ worker[w].pc = "read_sheet_to_db"
    /\ faults < MaxFaults
    /\ faults' = faults + 1
    /\ Completed(worker[w].unit, ReturnedValue(0), TRUE)
    /\ worker' = [worker EXCEPT ![w] = DbWorkerIdle]
    /\ UNCHANGED <<dbfixed, disk, next_unit, run_result, store, db>>

\* the sum of the values of the futures
RECURSIVE SumResults(_, _)
SumResults(res, U) ==
    IF U = {} THEN 0
    ELSE LET u == CHOOSE x \in U : TRUE
         IN  res[u].value + SumResults(res, U \ {u})

\* lines 359-371: as_completed has yielded every future and
\* read_excel_to_db returns the sum of their values
DbIngested ==
    /\ mode = "db"
    /\ db.pc = "ingest"
    /\ finished = DOMAIN sheet_rows
    /\ db' = [db EXCEPT !.pc = "count",
                        !.total_data_rows = SumResults(results, DOMAIN results)]
    /\ UNCHANGED <<dbfixed, disk, next_unit, worker, finished, faults,
                   results, failed_units, run_result, store>>

\* lines 428 and 244-254: the staged rows are counted, the numbers of
\* output sheets and files follow from the count, and the output directory
\* is made if it does not exist
DbCount ==
    /\ mode = "db"
    /\ db.pc = "count"
    /\ LET total_rows == count_data_rows(store)
           total_sheets == Ceil(total_rows, data_rows_per_sheet)
           total_files == Ceil(total_sheets, sheets_per_file)
       IN  db' = [db EXCEPT !.pc = "emit", !.total_rows = total_rows,
                            !.total_sheets = total_sheets,
                            !.total_files = total_files, !.sheet = 1,
                            !.output_dir = TRUE]
    /\ UNCHANGED <<dbfixed, disk, next_unit, worker, finished, faults,
                   results, failed_units, run_result, store>>

\* lines 312-317 and 274-298: the sequential loop is at output sheet
\* db.sheet, counted over all files; process_sheet derives its file, its
\* sheet, its range of staged rows and reads them
DbTask ==
    LET global_sheet_idx == db.sheet
        start_row == (global_sheet_idx - 1) * data_rows_per_sheet + 1
        sheet_row_count == Min(data_rows_per_sheet, db.total_rows - (start_row - 1))
    IN  [file_idx |-> ((global_sheet_idx - 1) \div sheets_per_file) + 1,
         sheet_idx_in_file |-> ((global_sheet_idx - 1) % sheets_per_file) + 1,
         data_df |-> get_data_for_sheet(store.rows, start_row, sheet_row_count)]

\* every write in mode 'w' (lines 161, 187, 191, 198): whatever the file
\* held, it holds this sheet alone afterwards
WrittenAnew(out, f, sh, data) == WithSheet(WithoutFile(out, f), <<f, sh>>, data)

\* a write_excel_file that opens the file in mode 'w' in every case
write_excel_file_ModeW(out, cor, f, sh, data) == WrittenAnew(out, f, sh, data)

\* lines 159-192 of write_excel_file when no I/O error is raised: a file
\* that does not exist is created with the sheet (159-163); a file that
\* cannot be read makes load_workbook raise and is written anew (184-188);
\* a readable file loses its sheet of that name and gets the new one
\* appended (170-183), and when that sheet was its only one the workbook
\* is left without a sheet, where either book.save raises and the file is
\* written anew or the sheet is appended to the empty workbook: the file
\* holds this sheet alone both ways
write_excel_file(out, cor, f, sh, data) ==
    IF f \notin FilesOf(out) \/ f \in cor
    THEN WrittenAnew(out, f, sh, data)
    ELSE IF SheetsOf(out, f) = {<<f, sh>>}
         THEN WrittenAnew(out, f, sh, data)
         ELSE WithSheet(out, <<f, sh>>, data)

\* the loop of create_output_files is at a sheet that is to be written
DbEmitting ==
    /\ mode = "db"
    /\ db.pc = "emit"
    /\ db.sheet <= db.total_sheets

\* lines 300-304: the sheet is written
DbWriteOk ==
    /\ DbEmitting
    /\ LET t == DbTask
       IN  /\ output' = write_excel_file(output, corrupt, t.file_idx,
                                         t.sheet_idx_in_file, t.data_df)
           /\ corrupt' = corrupt \ {t.file_idx}
    /\ db' = [db EXCEPT !.sheet = @ + 1]
    /\ UNCHANGED <<dbfixed, next_unit, worker, finished, faults, results,
                   failed_units, run_result, store>>

\* lines 184-188 and 194-199: the write raised and the handler writes the
\* file anew in mode 'w' with this sheet alone
DbWriteRecover ==
    /\ DbEmitting
    /\ faults < MaxFaults
    /\ faults' = faults + 1
    /\ LET t == DbTask
       IN  /\ output' = WrittenAnew(output, t.file_idx, t.sheet_idx_in_file, t.data_df)
           /\ corrupt' = corrupt \ {t.file_idx}
    /\ db' = [db EXCEPT !.sheet = @ + 1]
    /\ UNCHANGED <<dbfixed, next_unit, worker, finished, results,
                   failed_units, run_result, store>>

\* lines 200-201: the write in mode 'w' raised as well; the error is
\* logged, the file is left as it was or is left unreadable, and the loop
\* goes on
DbWriteFail ==
    /\ DbEmitting
    /\ faults < MaxFaults
    /\ faults' = faults + 1
    /\ LET t == DbTask
       IN  \/ UNCHANGED disk
           \/ /\ output' = WithoutFile(output, t.file_idx)
              /\ corrupt' = corrupt \cup {t.file_idx}
    /\ db' = [db EXCEPT !.sheet = @ + 1]
    /\ UNCHANGED <<dbfixed, next_unit, worker, finished, results,
                   failed_units, run_result, store>>

\* lines 443-470, the finally block, for the database: with delete_db the
\* temporary directory or the file at custom_db_path is removed; without
\* it a database at custom_db_path stays there and a temporary one is
\* copied to excel_data.db in the output directory, which raises (the
\* error is logged) when that directory does not exist
StoreAfterFinally(d, st) ==
    IF ~st.exists THEN st
    ELSE IF d.delete_db THEN NoStore
    ELSE IF d.custom_db_path THEN st
    ELSE IF d.output_dir THEN [st EXCEPT !.at = "output_dir"]
    ELSE st

\* lines 443-470 for the temporary directory: shutil.rmtree removes it,
\* after the copy when the database is kept, so it stays when the copy
\* raised
TempDirAfterFinally(d) ==
    IF ~d.temp_dir THEN FALSE
    ELSE IF d.delete_db THEN FALSE
    ELSE ~d.output_dir

\* lines 441-470: split_excel_with_db ends with result through its finally
\* block
DbExit(result) ==
    /\ run_result' = result
    /\ store' = StoreAfterFinally(db, store)
    /\ db' = [db EXCEPT !.pc = "done", !.temp_dir = TempDirAfterFinally(db)]

\* lines 319 and 441: create_output_files returns total_files, which the
\* run returns
DbReturn ==
    /\ mode = "db"
    /\ db.pc = "emit"
    /\ db.sheet > db.total_sheets
    /\ DbExit(Returned(db.total_files))
    /\ UNCHANGED <<dbfixed, disk, next_unit, worker, finished, faults,
                   results, failed_units>>

\* lines 335-336 of read_excel_to_db: pd.ExcelFile(input_file) raises, no
\* pool is made and the exception leaves split_excel_with_db
DbIngestRaise ==
    /\ mode = "db"
    /\ db.pc = "ingest"
    /\ next_unit = 1
    /\ faults < MaxFaults
    /\ faults' = faults + 1
    /\ DbExit(Raised("Exception"))
    /\ UNCHANGED <<dbfixed, disk, next_unit, worker, finished, results,
                   failed_units>>

\* lines 428 and 244-254: count_data_rows or os.makedirs raises and the
\* exception leaves create_output_files and split_excel_with_db
DbEmitRaise ==
    /\ mode = "db"
    /\ db.pc = "count"
    /\ faults < MaxFaults
    /\ faults' = faults + 1
    /\ DbExit(Raised("Exception"))
    /\ UNCHANGED <<dbfixed, disk, next_unit, worker, finished, results,
                   failed_units>>

\* split_excel_with_db is called a second time with the same input,
\* parameters and output directory; custom_db_path names the retained
\* database (reuse) or the run gets a temporary database of its own
DbRerun ==
    /\ mode = "db"
    /\ db.pc = "done"
    /\ db.run = 1
    /\ \E reuse \in {FALSE, store.exists /\ store.at # "temp"} :
          /\ db' = DbBegin(db.run + 1, db.delete_db, reuse, failed_units,
                           reuse \/ db.custom_db_path, db.output_dir)
          /\ store' = IF reuse THEN [store EXCEPT !.at = "custom"] ELSE NoStore
    /\ next_unit' = 1
    /\ finished' = {}
    /\ results' = <<>>
    /\ failed_units' = {}
    /\ run_result' = Running
    /\ UNCHANGED <<dbfixed, disk, worker, faults>>

NextDb ==
    \/ DbOpen
    \/ \E w \in DOMAIN worker : DbTake(w)
    \/ \E w \in DOMAIN worker : DbIngestOk(w)
    \/ \E w \in DOMAIN worker : DbIngestFail(w)
    \/ DbIngested
    \/ DbCount
    \/ DbWriteOk
    \/ DbWriteRecover
    \/ DbWriteFail
    \/ DbReturn
    \/ DbIngestRaise
    \/ DbEmitRaise
    \/ DbRerun

SpecDb == InitDb /\ [][NextDb]_vars

\* the same runs with and without custom_db_path, into an output directory
\* that exists or is yet to be made
InitDbLife ==
    DbStartOf(LifeMaxGroups, LifeMaxTotal, LifeMaxG, LifeMaxWorkers,
              LifeMaxColumns, BOOLEAN, BOOLEAN)

SpecDbLife == InitDbLife /\ [][NextDb]_vars

----------------------------------------------------------------------------
(* A second run of segment mode into the output directory of a complete
   run *)

\* the records the plan assigns to target t, segments i.. in plan order
RECURSIVE TargetRecords(_, _, _)
TargetRecords(segs, t, i) ==
    IF i > Len(segs) THEN <<>>
    ELSE (IF <<segs[i].output_file, segs[i].output_sheet>> = t
          THEN read_sheet_data(sheet_rows, segs[i].input_sheet,
                               segs[i].start_row, segs[i].num_rows)
          ELSE <<>>) \o TargetRecords(segs, t, i + 1)

\* the output directory in which every planned target holds its batches
CompleteResult(segs) ==
    [t \in SegTargets(segs) |-> TargetRecords(segs, t, 1)]

\* lines 351-400: split_excel_file_distributed starts with the same input
\* and parameters while the output directory holds the complete result
SegRerunStartOf(maxGroups, maxTotal, maxG, maxWorkers) ==
    /\ sheet_rows \in SizeSeqsTotal(maxGroups, maxTotal)
    /\ sheets_per_file \in 1..maxG
    /\ data_rows_per_sheet \in 1..maxTotal
    /\ plan = calculate_output_distribution(
                  sheet_rows, sheets_per_file, data_rows_per_sheet)
    /\ stream = StreamIdle
    /\ output = CompleteResult(plan.data_segments)
    /\ corrupt = {}
    /\ mode = "segment"
    /\ data_segments = plan.data_segments
    /\ next_unit = 1
    /\ \E max_workers \in 1..maxWorkers :
          worker = [w \in 1..Min(max_workers, Len(data_segments)) |-> SegWorkerIdle]
    /\ file_locks = [p \in {1} |-> <<>>]
    /\ file_locks_lock = [p \in {1} |-> 0]
    /\ lock_owner = <<>>
    /\ finished = {}
    /\ chunk_size = 0
    /\ faults = 0
    /\ results = <<>>
    /\ failed_units = {}
    /\ run_result = Running
    /\ input_analysis = Analysed(sheet_rows, {})
    /\ StagingIdle

InitSegRerun == SegRerunStartOf(SegMaxGroups, SegMaxTotal, SegMaxG, SegMaxWorkers)

SpecSegRerun == InitSegRerun /\ [][NextSeg]_vars

----------------------------------------------------------------------------
(* Segment mode from the analysis of the input on, with an input that can
   lose records after it was analysed *)

\* analyze_input_file has not returned yet
Analysing == [pc |-> "analysing"]

\* lines 58-79 of count_rows_in_sheet: the data rows of sheet i, or 0 when
\* neither openpyxl nor pandas could count them
count_rows_in_sheet(rows, i, failed) == IF failed THEN 0 ELSE rows[i]

\* lines 362-376: the run has started and nothing has been analysed
InitSegSource ==
    /\ sheet_rows \in SizeSeqsTotal(SegMaxGroups, SegMaxTotal)
    /\ sheets_per_file \in 1..SegMaxG
    /\ data_rows_per_sheet \in 1..SegMaxTotal
    /\ plan = PlanIdle
    /\ stream = StreamIdle
    /\ output = NoOutput
    /\ corrupt = {}
    /\ mode = "segment"
    /\ data_segments = <<>>
    /\ next_unit = 1
    /\ worker = <<>>
    /\ file_locks = [p \in {1} |-> <<>>]
    /\ file_locks_lock = [p \in {1} |-> 0]
    /\ lock_owner = <<>>
    /\ finished = {}
    /\ chunk_size = 0
    /\ faults = 0
    /\ results = <<>>
    /\ failed_units = {}
    /\ run_result = Analysing
    /\ input_analysis = NoAnalysis
    /\ StagingIdle

\* lines 378-395 and 112-148: analyze_input_file counts every listed sheet,
\* a sheet that cannot be counted gets 0; the plan is computed from the
\* counts and the pool is sized
SegAnalyze ==
    /\ mode = "segment"
    /\ run_result = Analysing
    /\ \E uncounted \in SUBSET DOMAIN sheet_rows, max_workers \in 1..SegMaxWorkers :
          LET data_rows == [i \in DOMAIN sheet_rows |->
                               count_rows_in_sheet(sheet_rows, i, i \in uncounted)]
              distribution == calculate_output_distribution(
                                  data_rows, sheets_per_file, data_rows_per_sheet)
          IN  /\ faults + Cardinality(uncounted) <= MaxFaults
              /\ faults' = faults + Cardinality(uncounted)
              /\ input_analysis' = Analysed(data_rows, uncounted)
              /\ plan' = distribution
              /\ data_segments' = distribution.data_segments
              /\ worker' = [w \in 1..Min(max_workers, Len(distribution.data_segments))
                                |-> SegWorkerIdle]
    /\ run_result' = Running
    /\ UNCHANGED <<sheet_rows, sheets_per_file, data_rows_per_sheet, stream, disk,
                   mode, next_unit, file_locks, file_locks_lock, lock_owner,
                   finished, chunk_size, results, failed_units, staging>>

\* the input file is changed by someone else while the run is under way:
\* a sheet loses its last record
SourceShrinks ==
    /\ mode = "segment"
    /\ run_result = Running
    /\ \E i \in DOMAIN sheet_rows :
          /\ sheet_rows[i] > 0
          /\ sheet_rows' = [sheet_rows EXCEPT ![i] = @ - 1]
    /\ UNCHANGED <<input_analysis, sheets_per_file, data_rows_per_sheet, plan,
                   stream, disk, pool, run_result, staging>>

NextSegSource ==
    \/ SegAnalyze
    \/ SourceShrinks
    \/ \E w \in DOMAIN worker : SegStart(w)
    \/ \E w \in DOMAIN worker : SegRegistryEnter(w)
    \/ \E w \in DOMAIN worker : SegRegistryReturn(w)
    \/ \E w \in DOMAIN worker : SegAcquire(w)
    \/ \E w \in DOMAIN worker : SegInspect(w)
    \/ \E w \in DOMAIN worker : SegWriteOk(w)
    \/ \E w \in DOMAIN worker : SegWriteFail(w)
    \/ \E w \in DOMAIN worker : SegFallbackOk(w)
    \/ \E w \in DOMAIN worker : SegFallbackFail(w)
    \/ SegReturn

SpecSegSource == InitSegSource /\ [][NextSegSource]_vars

----------------------------------------------------------------------------
(* Segment mode claims *)

\* the records of input sheets i..n in (rank, row) order
RECURSIVE InputFrom(_, _)
InputFrom(rows, i) ==
    IF i > Len(rows) THEN <<>>
    ELSE [k \in 1..rows[i] |-> <<i, k - 1>>] \o InputFrom(rows, i + 1)

\* target a comes before target b in (output_file, output_sheet) order
TargetBefore(a, b) == a[1] < b[1] \/ (a[1] = b[1] /\ a[2] < b[2])

\* the stored records of the targets T, concatenated in target order
RECURSIVE ConcatTargets(_, _)
ConcatTargets(out, T) ==
    IF T = {} THEN <<>>
    ELSE LET first == CHOOSE a \in T : \A b \in T \ {a} : TargetBefore(a, b)
         IN  out[first] \o ConcatTargets(out, T \ {first})

\* the source records a segment names
SegRecords(seg) ==
    [k \in 1..seg.num_rows |-> <<seg.input_sheet, seg.start_row + k - 1>>]

\* a and b occur in s as contiguous runs, the run of a ending before the
\* run of b begins
RunBefore(s, a, b) ==
    \E k \in 0..Len(s), m \in 0..Len(s) :
        /\ k + Len(a) <= m
        /\ m + Len(b) <= Len(s)
        /\ SubSeq(s, k + 1, k + Len(a)) = a
        /\ SubSeq(s, m + 1, m + Len(b)) = b

\* C1: once every planned segment has been processed without an I/O error,
\* the output groups concatenated in (output_file, output_sheet) order are
\* exactly the input records in their original order.
C1_SegRoundTrip ==
    (SegRunFinished /\ faults = 0) =>
        ConcatTargets(output, DOMAIN output) = InputFrom(sheet_rows, 1)

\* C6: at most one worker at a time is inside the read-modify-write cycle
\* of an output file, whatever groups the segments target, and every worker
\* that asked get_file_lock for a path got the one lock registered for it.
C6_SegMutex ==
    mode = "segment" =>
        /\ \A w1, w2 \in DOMAIN worker :
              (/\ w1 # w2
               /\ worker[w1].pc \in InCycle
               /\ worker[w2].pc \in InCycle) => PathOf(w1) # PathOf(w2)
        /\ \A w \in DOMAIN worker :
              worker[w].pc \in InCycle \cup {"acquire"} =>
                  /\ PathOf(w) \in DOMAIN file_locks[1]
                  /\ worker[w].file_lock = file_locks[1][PathOf(w)]
        /\ \A w \in DOMAIN worker :
              worker[w].pc \in InCycle => lock_owner[worker[w].file_lock] = w

\* two segments for different groups of one artifact: one worker is inside
\* the cycle while the other waits for the same lock
C6_Witness ==
    /\ mode = "segment"
    /\ \E w1, w2 \in DOMAIN worker :
          /\ w1 # w2
          /\ worker[w1].pc = "write"
          /\ worker[w2].pc = "acquire"
          /\ PathOf(w1) = PathOf(w2)
          /\ TargetOf(w1) # TargetOf(w2)
          /\ worker[w1].file_lock = worker[w2].file_lock

\* C8: two segments with the same target, submitted A then B, leave the
\* target holding A's records followed by B's records.
C8_SameTargetOrder ==
    (SegRunFinished /\ faults = 0) =>
        \A i, j \in DOMAIN data_segments :
            (/\ i < j
             /\ data_segments[i].output_file = data_segments[j].output_file
             /\ data_segments[i].output_sheet = data_segments[j].output_sheet) =>
                LET t == <<data_segments[i].output_file, data_segments[i].output_sheet>>
                IN  /\ t \in DOMAIN output
                    /\ RunBefore(output[t], SegRecords(data_segments[i]),
                                 SegRecords(data_segments[j]))

\* the step of worker w is a fallback rewrite that completed: the file was
\* readable and no I/O error was raised
FallbackCompleted(w) ==
    /\ mode = "segment"
    /\ worker[w].pc = "fallback"
    /\ worker'[w].pc # "fallback"
    /\ PathOf(w) \in FilesOf(output)
    /\ PathOf(w) \notin corrupt
    /\ faults' = faults

\* C11: a fallback rewrite that completes leaves every other group of the
\* artifact with its records, and the target group with its previous
\* records followed by every record of the new batch (the new batch alone
\* if the group did not exist).
C11_FallbackRebuild ==
    [][\A w \in DOMAIN worker :
          FallbackCompleted(w) =>
              LET t == TargetOf(w)
                  previous == IF t \in DOMAIN output THEN output[t] ELSE <<>>
              IN  output' = WithSheet(output, t, previous \o worker[w].df)]_vars

\* C12: a segment whose primary write and fallback rewrite both failed ends
\* in a failure the coordinator observes: its future does not give what the
\* future of a successful write gives.
C12_WriteFailedSurfaced ==
    mode = "segment" =>
        \A u \in failed_units \cap DOMAIN results : results[u] # ReturnedNone

\* C13: a run in which at least one unit failed does not end with the
\* result of a fully successful run: it ends as a failure.
C13_OverallStatus ==
    (mode = "segment" /\ run_result # Running /\ failed_units # {}) =>
        /\ run_result.pc = "raised"
        /\ run_result # Returned(plan.total_output_files)

----------------------------------------------------------------------------
(* Whole-group mode claims *)

\* C7: no two worker processes are inside the write cycle of the same
\* output file at the same time.
C7_ParMutex ==
    mode = "parallel" =>
        \A w1, w2 \in DOMAIN worker :
            (/\ w1 # w2
             /\ worker[w1].pc \in ParInCycle
             /\ worker[w2].pc \in ParInCycle) =>
                worker[w1].file_idx # worker[w2].file_idx

\* the batch of a step that stored rows_to_add records in a group that
\* already held records
ParAppended(w) ==
    /\ mode = "parallel"
    /\ worker[w].pc \in {"par_write", "par_recover"}
    /\ worker'[w].pc = "par_while"
    /\ worker'[w].chunk_start_idx = worker[w].chunk_start_idx + worker[w].rows_to_add
    /\ <<worker[w].file_idx, worker[w].sheet_idx>> \in DOMAIN output
    /\ Len(output[<<worker[w].file_idx, worker[w].sheet_idx>>]) >= 1

\* C9: a batch added to a group that stores k >= 1 records leaves records
\* 1..k unchanged and puts the new records at positions k+1..k+n.
C9_AppendPosition ==
    [][\A w \in DOMAIN worker :
          ParAppended(w) =>
              LET t == <<worker[w].file_idx, worker[w].sheet_idx>>
              IN  /\ t \in DOMAIN output'
                  /\ output'[t] = output[t] \o worker[w].df_to_add]_vars

----------------------------------------------------------------------------
(* Both pools, with the scheduling of the operating system: a worker that  *)
(* can take a step is not suspended forever                                *)

InitPool ==
    \/ SegStartOf(LockMaxGroups, LockMaxTotal, LockMaxG, LockMaxWorkers)
    \/ ParStartOf(LockMaxGroups, LockMaxTotal, LockMaxG, LockMaxWorkers, LockMaxChunk)

NextPool == NextSeg \/ NextPar

WorkerStep(w) == w \in DOMAIN worker /\ (SegStep(w) \/ ParStep(w))

FairSpecPool ==
    /\ InitPool
    /\ [][NextPool]_vars
    /\ \A w \in 1..LockMaxWorkers : WF_vars(WorkerStep(w))
    /\ WF_vars(SegReturn \/ ParRunReturn)

\* the lock a worker holds, if it is inside a with block
HoldsLock(w) == worker[w].pc \in InCycle \cup ParInCycle

\* a worker blocked at "with file_lock"
Waiting(w) == w \in DOMAIN worker /\ worker[w].pc \in {"acquire", "par_acquire"}

\* C10: a file lock is held only by a worker inside the with block of
\* that lock, whatever path the previous holders left it by, and every
\* worker waiting for a file lock eventually acquires it.
C10_LockReleased ==
    /\ [](\A l \in DOMAIN lock_owner :
            lock_owner[l] # 0 =>
                /\ lock_owner[l] \in DOMAIN worker
                /\ HoldsLock(lock_owner[l])
                /\ worker[lock_owner[l]].file_lock = l)
    /\ \A w \in 1..LockMaxWorkers : Waiting(w) ~> (w \in DOMAIN worker /\ HoldsLock(w))

\* a worker waits for a lock whose holder then leaves the cycle through
\* the failed fallback
C10_Witness ==
    \E w1, w2 \in DOMAIN worker :
        /\ w1 # w2
        /\ worker[w1].pc = "acquire"
        /\ worker[w2].pc = "fallback"
        /\ worker[w2].failed
        /\ lock_owner[worker[w1].file_lock] = w2
        /\ ~(PathOf(w2) \in FilesOf(output) /\ PathOf(w2) \notin corrupt)

\* the units submitted to the executor
NumUnits == IF mode = "segment" THEN Len(data_segments) ELSE Len(sheet_rows)

\* C14: every unit of the whole-group mode eventually reports completion or
\* a captured error, also when the writes to one of its output files keep
\* failing in the primary path and in the recovery path.
C14_UnitLiveness ==
    \A u \in 1..LockMaxGroups :
        <>(mode = "parallel" => (u \in DOMAIN sheet_rows => u \in finished))

\* C15: the run is declared finished only after every submitted unit has
\* ended, and an error in one unit never keeps a sibling from being
\* executed: every submitted unit is eventually taken by a worker.
C15_Isolation ==
    /\ [](run_result # Running => finished = 1..NumUnits)
    /\ <>(next_unit > NumUnits)

----------------------------------------------------------------------------
(* Two-phase mode claims *)

\* the position of staged row k among the staged rows sorted by
\* (source_sheet, row_num)
KeyRank(rows, k) ==
    1 + Cardinality({j \in DOMAIN rows : RowBefore(rows[j], rows[k])})

\* every query on the staged rows returns the records of its range of
\* positions in key order
QueryOrdered(rows) ==
    \A start_row \in 1..(Len(rows) + 1), row_count \in 0..Len(rows) :
        LET res == get_data_for_sheet(rows, start_row, row_count)
        IN  /\ Len(res) = Min(row_count, Len(rows) - start_row + 1)
            /\ \A j \in DOMAIN res :
                  \E k \in DOMAIN rows :
                      /\ KeyRank(rows, k) = start_row + j - 1
                      /\ res[j] = rows[k].rec

\* C16: whatever the order in which the concurrent read_sheet_to_db calls
\* appended their rows, get_data_for_sheet(start_row, row_count) returns
\* exactly the records at positions start_row .. start_row + row_count - 1
\* of the staged records sorted by (source_sheet, row_num), in that order.
\* The store gets its rows during ingestion only, so every content it ever
\* has is met there.
C16_QueryOrder ==
    (mode = "db" /\ db.pc = "ingest") => QueryOrdered(store.rows)

\* an output sheet has been written from a store whose insertion order is
\* not the order of the keys
C16_Witness ==
    /\ mode = "db"
    /\ db.pc = "emit"
    /\ db.sheet > 1
    /\ \E k \in 1..(Len(store.rows) - 1) : RowBefore(store.rows[k + 1], store.rows[k])

\* the records the store holds for input sheet u, in row_num order
StoredOf(rows, u) ==
    LET of_u == SelectSeq(OrderBy(rows), LAMBDA r : r.source_sheet = u)
    IN  [k \in DOMAIN of_u |-> of_u[k].rec]

\* the records of input sheet u, in their original order
InputOf(rows, u) == [k \in 1..rows[u] |-> <<u, k - 1>>]

\* read_excel_to_db has seen every future complete and the store has not
\* been touched since
IngestionOver ==
    /\ mode = "db"
    /\ db.pc \in {"count", "emit"}
    /\ finished = DOMAIN sheet_rows
    /\ store.exists

\* C17: when read_sheet_to_db failed for an input group, that group has
\* no record in the staging store and its reported count is 0, while the
\* records of every other group are all stored, unaltered; the other
\* groups were not blocked, since ingestion is over.
C17_StagingIsolation ==
    (IngestionOver /\ failed_units # {}) =>
        \A u \in DOMAIN sheet_rows :
            IF u \in failed_units
            THEN /\ StoredOf(store.rows, u) = <<>>
                 /\ results[u] = ReturnedValue(0)
            ELSE StoredOf(store.rows, u) = InputOf(sheet_rows, u)

\* the positions of the store that hold rows of input sheet u
PositionsOf(rows, u) == {k \in DOMAIN rows : rows[k].source_sheet = u}

\* the store holds every row of every input sheet exactly once
EveryGroupOnce(rows) ==
    \A u \in DOMAIN sheet_rows :
        /\ Cardinality(PositionsOf(rows, u)) = sheet_rows[u]
        /\ {rows[k].row_num : k \in PositionsOf(rows, u)} = 1..sheet_rows[u]

\* C18: after a run in which the ingestion of a group failed and the store
\* was retained, a second run against the retained store ingests the
\* failed group, so that afterwards the store holds the records of every
\* group exactly once.
C18_RepairByRerun ==
    (/\ mode = "db"
     /\ db.run = 2
     /\ db.reuse
     /\ db.failed_before # {}
     /\ db.pc = "done"
     /\ num_columns >= 2) => EveryGroupOnce(store.rows)

\* the target of output sheet number k, counted over all files
TargetOfSheet(k) ==
    <<((k - 1) \div sheets_per_file) + 1, ((k - 1) % sheets_per_file) + 1>>

\* C19: when the ingestion of every input group succeeded, whatever the
\* interleaving of the ingesting processes, and no write raised, the
\* output sheets written by create_output_files, concatenated in (file,
\* sheet) order, are exactly the records of all input groups in (group
\* rank, row number) order, and output sheet number k holds the logical
\* records (k - 1) * R + 1 .. min(k * R, total).
C19_StagedRoundTrip ==
    (/\ mode = "db"
     /\ db.run = 1
     /\ db.pc = "done"
     /\ failed_units = {}
     /\ faults = 0) =>
        LET input == InputFrom(sheet_rows, 1)
            total == Len(input)
            R == data_rows_per_sheet
        IN  /\ ConcatTargets(output, DOMAIN output) = input
            /\ DOMAIN output = {TargetOfSheet(k) : k \in 1..Ceil(total, R)}
            /\ \A k \in 1..Ceil(total, R) :
                  /\ TargetOfSheet(k) \in DOMAIN output
                  /\ output[TargetOfSheet(k)] =
                         SubSeq(input, (k - 1) * R + 1, Min(k * R, total))

----------------------------------------------------------------------------
(* Claims about a second run *)

\* C20: when process_data_segment is applied a second time with a segment
\* whose batch is already stored in its target, as in a second run into a
\* directory that holds the complete result, and no I/O error is raised,
\* the records of every target stay what they were and no target holds
\* more than R records.
C20_SegIdempotent ==
    (mode = "segment" /\ faults = 0) =>
        /\ output = CompleteResult(data_segments)
        /\ \A t \in DOMAIN output : Len(output[t]) <= data_rows_per_sheet

\* the number of the output sheet, counted over all files, that target t is
SheetNumber(t) == (t[1] - 1) * sheets_per_file + t[2]

\* the content create_output_files gives the output directory from the
\* staged rows: sheet number k holds the rows of positions
\* (k - 1) * R + 1 .. min(k * R, total) in key order
EmittedFrom(rows) ==
    LET R == data_rows_per_sheet
    IN  [t \in {TargetOfSheet(k) : k \in 1..Ceil(Len(rows), R)} |->
            get_data_for_sheet(rows, (SheetNumber(t) - 1) * R + 1, R)]

\* C21: running create_output_files again from the same staged data over
\* output files that already hold the content it writes, with no I/O
\* error, leaves the records of every (file, sheet) target unchanged and
\* every other sheet of the same file in place, whether the rewritten sheet
\* has sibling sheets or is the only sheet of its file.
C21_StagedRerun ==
    (/\ mode = "db"
     /\ db.run = 2
     /\ db.reuse
     /\ faults = 0) => output = EmittedFrom(store.rows)

\* the second run has rewritten a sheet of a file that holds two sheets
C21_Witness ==
    /\ mode = "db"
    /\ db.run = 2
    /\ db.reuse
    /\ faults = 0
    /\ db.pc = "emit"
    /\ db.sheet = 2
    /\ {<<1, 1>>, <<1, 2>>} \subseteq DOMAIN output

----------------------------------------------------------------------------
(* Claims about edge cases of the input *)

\* C22: when every input group has zero records, the plan has no segment
\* and no artifact, and the run of segment mode schedules no unit, creates
\* no output file and returns 0.
C22_ZeroRecords ==
    (/\ mode = "segment"
     /\ SumSeq(sheet_rows) = 0
     /\ run_result # Running) =>
        /\ plan.data_segments = <<>>
        /\ plan.total_output_files = 0
        /\ next_unit = 1
        /\ output = NoOutput
        /\ corrupt = {}
        /\ run_result = Returned(0)

\* the range of the segment ends beyond the records its input sheet holds
RangeUnavailable(seg) == seg.start_row + seg.num_rows > sheet_rows[seg.input_sheet]

\* C23: when a segment is read whose start_row + num_rows exceeds the
\* number of records its input sheet holds at that time, the unit ends
\* there as failed and no worker goes on to write the short batch.
C23_RangeUnavailable ==
    [][(/\ mode = "segment"
        /\ next_unit' = next_unit + 1
        /\ RangeUnavailable(data_segments[next_unit])) =>
           /\ next_unit \in failed_units'
           /\ worker' = worker]_vars

\* C24: when the records of a listed input sheet could not be counted, the
\* analysis fails: the sheet is not reported with zero records, the run
\* ends as failed and no unit is scheduled.
C24_GroupMissing ==
    (/\ mode = "segment"
     /\ input_analysis.pc = "done"
     /\ input_analysis.uncounted # {}) =>
        /\ \A i \in input_analysis.uncounted : input_analysis.data_rows[i] # 0
        /\ run_result.pc = "raised"
        /\ next_unit = 1

\* C25: on every way out of split_excel_with_db, by return or by an
\* exception in ingestion or emission, the staging store is gone when
\* delete_db is set; otherwise the staged records are kept, at
\* custom_db_path when one was given and else as excel_data.db in the
\* output directory with the temporary directory removed.
C25_StoreLifecycle ==
    (mode = "db" /\ db.pc = "done") =>
        IF db.delete_db
        THEN ~store.exists /\ ~db.temp_dir
        ELSE /\ store.exists
             /\ store.at = (IF db.custom_db_path THEN "custom" ELSE "output_dir")
             /\ ~db.temp_dir

----------------------------------------------------------------------------
(* Claims about resources *)

\* C26: a worker of whole-group mode never holds more input records than
\* the chunk bound of the caller, also when the caller gives none: whatever
\* the size of the groups, it holds no more records than the largest chunk
\* bound a caller chooses here.
C26_MemoryBound ==
    mode = "parallel" =>
        \A w \in DOMAIN worker : Len(worker[w].df_chunk) <= ParMaxChunk

----------------------------------------------------------------------------
(* Claims about the shape of the plan *)

\* the target a segment names
SegTarget(seg) == <<seg.output_file, seg.output_sheet>>

\* the records assigned to the target of segment i by the segments before it
OffsetIn(segs, i) == TargetLoad(SubSeq(segs, 1, i - 1), SegTarget(segs[i]))

\* the planned records: <<i, k>> is record k of segment i
PlannedRecords(segs) ==
    UNION {{<<i, k>> : k \in 0..(segs[i].num_rows - 1)} : i \in DOMAIN segs}

\* where a planned record comes from: <<group rank, row number>>
SourceOf(segs, e) == <<segs[e[1]].input_sheet, segs[e[1]].start_row + e[2]>>

\* where a planned record goes: <<target, offset within the target>>
DestOf(segs, e) == <<SegTarget(segs[e[1]]), OffsetIn(segs, e[1]) + e[2]>>

SourceBefore(a, b) == a[1] < b[1] \/ (a[1] = b[1] /\ a[2] < b[2])
DestBefore(a, b) == TargetBefore(a[1], b[1]) \/ (a[1] = b[1] /\ a[2] < b[2])

\* C27: along the segment list the targets never decrease, no segment names
\* a target the walk has advanced past (none lies after the open target),
\* and of two source records the one that precedes in (group rank, row
\* number) gets the destination (target, offset) that precedes the other's.
C27_PlanOrder ==
    plan.pc \in {"walk", "done"} =>
        LET segs == plan.data_segments
            open == <<plan.current_file, plan.current_sheet>>
        IN  /\ \A i \in DOMAIN segs, j \in DOMAIN segs :
                  i < j => ~TargetBefore(SegTarget(segs[j]), SegTarget(segs[i]))
            /\ \A i \in DOMAIN segs : ~TargetBefore(open, SegTarget(segs[i]))
            /\ \A a \in PlannedRecords(segs), b \in PlannedRecords(segs) :
                  SourceBefore(SourceOf(segs, a), SourceOf(segs, b)) =>
                      DestBefore(DestOf(segs, a), DestOf(segs, b))

\* a finished plan of two artifacts where two input groups share a target
C27_Witness ==
    /\ plan.pc = "done"
    /\ Cardinality(SegFiles(plan.data_segments)) = 2
    /\ \E i \in DOMAIN plan.data_segments, j \in DOMAIN plan.data_segments :
          /\ i < j
          /\ SegTarget(plan.data_segments[i]) = SegTarget(plan.data_segments[j])
          /\ plan.data_segments[i].input_sheet < plan.data_segments[j].input_sheet
          /\ OffsetIn(plan.data_segments, j) > 0

\* the segments that read input group g, in list order
SegsOf(segs, g) == SelectSeq(segs, LAMBDA seg : seg.input_sheet = g)

\* the total length of a segment list
RECURSIVE SegRows(_)
SegRows(ss) == IF ss = <<>> THEN 0 ELSE Head(ss).num_rows + SegRows(Tail(ss))

\* the segments ss tile [0, n): each starts where the one before it ends,
\* none is empty, and together they have n records
Tiles(ss, n) ==
    /\ \A k \in DOMAIN ss :
          /\ ss[k].start_row = SegRows(SubSeq(ss, 1, k - 1))
          /\ ss[k].num_rows > 0
    /\ SegRows(ss) = n

\* C28: in the returned plan the segments of every input group with n
\* records start at 0, l1, l1+l2, ... and their lengths sum to n, so every
\* source record belongs to exactly one segment; during the walk they tile
\* the part of the group read so far.
C28_PlanCoverage ==
    /\ plan.pc \in {"walk", "done"} =>
          \A g \in DOMAIN sheet_rows :
              Tiles(SegsOf(plan.data_segments, g), plan.current_positions[g])
    /\ plan.pc = "done" =>
          /\ \A g \in DOMAIN sheet_rows :
                Tiles(SegsOf(plan.data_segments, g), sheet_rows[g])
          /\ \A g \in DOMAIN sheet_rows : \A r \in 0..(sheet_rows[g] - 1) :
                Cardinality({e \in PlannedRecords(plan.data_segments) :
                    SourceOf(plan.data_segments, e) = <<g, r>>}) = 1

\* a finished plan where one input group is read by three segments or more
\* and another group by two or more
C28_Witness ==
    /\ plan.pc = "done"
    /\ \E g \in DOMAIN sheet_rows, h \in DOMAIN sheet_rows :
          /\ g # h
          /\ Len(SegsOf(plan.data_segments, g)) >= 3
          /\ Len(SegsOf(plan.data_segments, h)) >= 2

\* C29: in the returned plan every target except the last one in target
\* order holds exactly R records; when the total record count is divisible
\* by R the last one holds R as well; the files map registers exactly the
\* targets the segments name, with their record counts, and none is empty.
C29_GreedyExact ==
    plan.pc = "done" =>
        LET segs == plan.data_segments
            T == DOMAIN plan.files
        IN  /\ T = SegTargets(segs)
            /\ \A t \in T : /\ plan.files[t] = TargetLoad(segs, t)
                            /\ plan.files[t] > 0
            /\ \A t \in T : (\E u \in T : TargetBefore(t, u)) =>
                                plan.files[t] = data_rows_per_sheet
            /\ SumSeq(sheet_rows) % data_rows_per_sheet = 0 =>
                  \A t \in T : plan.files[t] = data_rows_per_sheet

\* a finished plan of three targets or more, all full, where the boundary
\* between the two input groups falls inside a target
C29_Witness ==
    /\ plan.pc = "done"
    /\ Len(sheet_rows) = 2
    /\ data_rows_per_sheet >= 2
    /\ SumSeq(sheet_rows) % data_rows_per_sheet = 0
    /\ sheet_rows[1] % data_rows_per_sheet # 0
    /\ Cardinality(DOMAIN plan.files) >= 3

\* the group list with a zero-record group inserted after position k
InsertZero(rows, k) == SubSeq(rows, 1, k) \o <<0>> \o SubSeq(rows, k + 1, Len(rows))

\* a segment list of the longer group list, its groups named as in the
\* group list without the group inserted after position k
WithoutInserted(segs, k) ==
    [i \in DOMAIN segs |->
        [segs[i] EXCEPT !.input_sheet = IF @ > k THEN @ - 1 ELSE @]]

\* C30: a zero-record group inserted at any position of the group list
\* (first, between two groups, last) leaves the segment list, the record
\* count of every target and the total group and artifact counts of the
\* plan unchanged.
C30_ZeroNeutral ==
    plan.pc = "done" =>
        \A k \in 0..Len(sheet_rows) :
            LET with == calculate_output_distribution(
                            InsertZero(sheet_rows, k),
                            sheets_per_file, data_rows_per_sheet)
            IN  /\ WithoutInserted(with.data_segments, k) = plan.data_segments
                /\ with.files = plan.files
                /\ with.total_output_sheets = plan.total_output_sheets
                /\ with.total_output_files = plan.total_output_files

\* a finished plan of two groups with records that share a partially
\* filled target, and the plan of the list with a zero-record group
\* between them
C30_Witness ==
    /\ plan.pc = "done"
    /\ Len(sheet_rows) = 2
    /\ sheet_rows[1] % data_rows_per_sheet # 0
    /\ sheet_rows[2] > 0
    /\ LET with == calculate_output_distribution(
                       InsertZero(sheet_rows, 1),
                       sheets_per_file, data_rows_per_sheet)
       IN  /\ Len(with.current_positions) = 3
           /\ with.current_positions[2] = 0
           /\ Len(with.data_segments) >= 3

----------------------------------------------------------------------------
(* Claims about the workers of the pools *)

\* C31: in segment mode two units with the same (output_file,
\* output_sheet) target are never both started by workers and both
\* unfinished.
C31_OneInFlight ==
    mode = "segment" =>
        \A w1 \in DOMAIN worker, w2 \in DOMAIN worker :
            (/\ w1 # w2
             /\ worker[w1].pc # "idle"
             /\ worker[w2].pc # "idle") => TargetOf(w1) # TargetOf(w2)

\* C32: whenever write_excel_file has written a sheet into an output file
\* that existed, on the recovery path as well, every other sheet the file
\* held before the call is still there with the same records.
C32_SiblingsKept ==
    [][(/\ DbEmitting
        /\ db'.sheet = db.sheet + 1
        /\ DbTask.file_idx \in FilesOf(output)
        /\ <<DbTask.file_idx, DbTask.sheet_idx_in_file>> \in DOMAIN output'
        /\ output'[<<DbTask.file_idx, DbTask.sheet_idx_in_file>>] = DbTask.data_df)
       => \A t \in SheetsOf(output, DbTask.file_idx) :
              t # <<DbTask.file_idx, DbTask.sheet_idx_in_file>> =>
                  /\ t \in DOMAIN output'
                  /\ output'[t] = output[t]]_vars

\* batch number chunk_start / c of input group i: the records
\* [chunk_start, chunk_start + c) that lie in the group
Batch(i, chunk_start, c) ==
    [k \in 1..Min(c, sheet_rows[i] - chunk_start) |-> <<i, chunk_start + k - 1>>]

\* the chunk loop of the streaming splitter reads the batches [0, c),
\* [c, 2c), ... of every group and leaves a group only when they cover it
StreamChunkedRead ==
    [][/\ (stream.pc = "for" /\ stream'.pc = "while") =>
              /\ stream.chunk_start % stream.chunk_size = 0
              /\ stream.chunk_start < sheet_rows[stream.sheet]
              /\ stream'.df_chunk =
                     Batch(stream.sheet, stream.chunk_start, stream.chunk_size)
       /\ (stream.pc = "while" /\ stream'.pc = "for") =>
              stream'.chunk_start = stream.chunk_start + stream.chunk_size
       /\ (stream.pc = "for" /\ stream'.pc = "for") =>
              /\ stream.chunk_start >= sheet_rows[stream.sheet]
              /\ stream'.chunk_start = 0]_vars

\* C33: the chunk loop of process_sheet reads the batches [0, c), [c, 2c),
\* ... of its group in order, each of at most c records, and it ends only
\* when the batches cover [0, n).
C33_ChunkedRead ==
    [][mode = "parallel" =>
        \A w \in DOMAIN worker :
            /\ (worker[w].pc = "chunk" /\ worker'[w].pc = "par_while") =>
                  /\ worker[w].chunk_start % worker[w].chunk_size = 0
                  /\ worker[w].chunk_start < sheet_rows[worker[w].unit]
                  /\ worker'[w].df_chunk =
                         Batch(worker[w].unit, worker[w].chunk_start,
                               worker[w].chunk_size)
            /\ (worker[w].pc = "par_while" /\ worker'[w].pc = "chunk") =>
                  worker'[w].chunk_start =
                      worker[w].chunk_start + worker[w].chunk_size
            /\ (worker[w].pc = "chunk" /\ worker'[w].pc = "idle") =>
                  worker[w].chunk_start >= sheet_rows[worker[w].unit]]_vars

\* the output file indices process_sheet has computed for unit u: those of
\* the files_info it returned or, while it runs, of its files_info so far
UnitFiles(u) ==
    IF u \in DOMAIN results /\ ~results[u].raised
    THEN {t[1] : t \in DOMAIN results[u].value}
    ELSE UNION {{t[1] : t \in DOMAIN worker[w].files_info} :
                   w \in {x \in DOMAIN worker : worker[x].unit = u}}

\* C34: in whole-group mode the output file indices computed for two
\* distinct input groups are disjoint.
C34_DisjointFiles ==
    mode = "parallel" =>
        \A u \in DOMAIN sheet_rows, v \in DOMAIN sheet_rows :
            u # v => UnitFiles(u) \cap UnitFiles(v) = {}

----------------------------------------------------------------------------
(* Further claims about the staged mode *)

\* C35: after an ingestion into an empty store the value read_sheet_to_db
\* returned for every group is the number of records the store holds for
\* that group, and the total read_excel_to_db returned is the number of
\* records in the store.
C35_IngestionCount ==
    (mode = "db" /\ db.run = 1 /\ db.pc = "count") =>
        /\ \A u \in DOMAIN results :
              results[u].value = Len(StoredOf(store.rows, u))
        /\ db.total_data_rows = count_data_rows(store)

----------------------------------------------------------------------------
(* The streaming splitter against the planner *)

\* C36: when the streaming splitter has finished, every output sheet holds
\* the records the plan of calculate_output_distribution assigns to it for
\* the same group sizes, in the same positions, whatever the chunk size,
\* and the file count it returns (lines 78-79, 187) is the number of
\* output files it created.
C36_StreamRefinesPlan ==
    stream.pc = "done" =>
        LET segs == calculate_output_distribution(
                        sheet_rows, sheets_per_file,
                        data_rows_per_sheet).data_segments
        IN  /\ output = CompleteResult(segs)
            /\ Ceil(Ceil(SumSeq(sheet_rows), data_rows_per_sheet),
                    sheets_per_file) = Cardinality(FilesOf(output))

----------------------------------------------------------------------------
(* Further claims about whole-group mode *)

\* C37: throughout a process_sheet call the sheet the chunks are read
\* from is the input group the unit was scheduled for; no write step
\* changes it, the recovery rewrite included.
C37_SourceFixed ==
    mode = "parallel" =>
        \A w \in DOMAIN worker :
            worker[w].pc # "idle" =>
                worker[w].sheet_name = <<"in", worker[w].unit>>

\* the number of records of input group u stored in output group t
StoredCount(out, t, u) ==
    IF t \in DOMAIN out
    THEN Cardinality({k \in DOMAIN out[t] :
                         out[t][k] # EmptyCell /\ out[t][k][1] = u})
    ELSE 0

\* C38: after every iteration of the write loop of process_sheet the
\* counter files_info[file_idx]['sheets'][sheet_idx] of every output group
\* the unit has written to is the number of the unit's records stored in
\* that group.
C38_CountersMatch ==
    mode = "parallel" =>
        \A w \in DOMAIN worker :
            worker[w].pc = "par_while" =>
                \A t \in DOMAIN worker[w].files_info :
                    worker[w].files_info[t] =
                        StoredCount(output, t, worker[w].unit)

====
